---------------------------- MODULE Spec2Model ----------------------------
(***************************************************************************)
(* A model of cottoncandy's array storage codec:                           *)
(*   - S3Client.upload_multipart          (s3client.py)                    *)
(*   - generate_ndarray_chunks            (utils.py)                       *)
(*   - ArrayInterface.upload_raw_array / download_raw_array,               *)
(*     upload_dask_array / download_dask_array,                            *)
(*     upload_sparse_array / download_sparse_array   (interfaces.py)       *)
(*                                                                         *)
(* Python 3 semantics are modelled ("/" is true division, map() is lazy).  *)
(* Each part of the program has its own specification over the shared      *)
(* variables: SpecMPU, SpecChunks, SpecManyChunks, SpecRaw, SpecDecode,    *)
(* SpecDask, SpecSparse, SpecRetag, SpecBranch, SpecPut, SpecDict, SpecRm, *)
(* SpecGzip.                                                               *)
(***************************************************************************)
EXTENDS Integers, Sequences, FiniteSets, TLC

VARIABLES
    mpu,    \* locals of one S3Client.upload_multipart call
    s3,     \* the object store's side of that multipart session
    gen,    \* one generate_ndarray_chunks generator and what it yielded
    store,  \* the bucket: object name -> stored object
    raw,    \* the upload_raw_array / download_raw_array calls made
    dask,   \* the upload_dask_array call in progress, or the last one
    reader, \* a download_dask_array call and the array computed from it
    sparse, \* the upload_sparse_array call in progress, or the last one,
            \* and a download_sparse_array call
    branch, \* what other writers did to a stored branch, and a cloud2dict
            \* call on it
    putcall, \* one upload_object call of an interface class
    fs,     \* one rm call of the file-system interface, and the bucket before
    gzstream \* one GzipInputStream and the last call made on it

vars == <<mpu, s3, gen, store, raw, dask, reader, sparse, branch, putcall, fs,
          gzstream>>

\* What the operations of one part leave alone.
notMpu == <<gen, store, raw, dask, reader, sparse, branch, putcall, fs,
    gzstream>>
notGen == <<mpu, s3, store, raw, dask, reader, sparse, branch, putcall, fs,
    gzstream>>
notRaw == <<mpu, s3, gen, dask, reader, sparse, branch, putcall, fs, gzstream>>
notDask == <<mpu, s3, raw, sparse, branch, putcall, fs, gzstream>>
notSparse == <<mpu, s3, gen, raw, dask, reader, branch, putcall, fs, gzstream>>
notBranch == <<mpu, s3, gen, raw, dask, reader, sparse, putcall, fs, gzstream>>
notPut == <<mpu, s3, gen, raw, dask, reader, sparse, branch, fs, gzstream>>
notFs == <<mpu, s3, gen, raw, dask, reader, sparse, branch, putcall,
    gzstream>>
notGz == <<mpu, s3, gen, store, raw, dask, reader, sparse, branch, putcall, fs>>

(***************************************************************************)
(* Configuration values (utils.py:32-39 read them from defaults.cfg; the   *)
(* values are the ones the comments in utils.py and s3client.py state).    *)
(***************************************************************************)
min_mpu_size == 5
max_put_size == 5000
max_mpu_size_TB == 5
max_mpu_parts == 10000
mpu_use_threshold == 100
mpu_chunksize == 100
MB == 1048576

MAX_MPU_PARTS == max_mpu_parts

(***************************************************************************)
(* Sizes are counted in a unit given by u, the number of units in one MB:  *)
(* u = MB counts bytes, u = 1 counts whole MB (a 5 TB payload does not     *)
(* fit a 32-bit integer in bytes).  Every comparison below is the source's *)
(* comparison with both sides expressed in that unit.                      *)
(***************************************************************************)
MIN_MPU_SIZE(u) == min_mpu_size * u
MAX_PUT_SIZE(u) == max_put_size * u
MPU_THRESHOLD(u) == mpu_use_threshold * u
MPU_CHUNKSIZE(u) == mpu_chunksize * u
\* nbytes < MAX_MPU_SIZE, with MAX_MPU_SIZE = max_mpu_size_TB*MB*MB bytes
BelowMaxMpuSize(nbytes, u) == (nbytes \div u) < max_mpu_size_TB * MB

(***************************************************************************)
(*   The state of each part before its operation is called.  A             *)
(*   specification starts every part idle and runs the operations of one.  *)
(***************************************************************************)
MpuIdle ==
    [pc |-> "idle", nbytes_total |-> 0, buffersize |-> 0, nparts |-> 0,
     last_part_offset |-> 0, chunk_idx |-> 0, Parts |-> <<>>, pos |-> 0,
     error |-> "none"]

S3Idle == [session |-> "none", parts |-> <<>>, calls |-> <<>>]

AxisNone == <<>>

GenIdle ==
    [pc |-> "idle", shape |-> <<>>, itemsize |-> 0, axis |-> AxisNone,
     buffersize |-> 0, u |-> 1, ii |-> 0, dim_nchunks |-> <<>>,
     chunk_shapes |-> <<>>, k |-> 0, yielded |-> <<>>, error |-> "none"]

\* A bucket without objects.
EmptyBucket == <<>>

NoArray ==
    [shape |-> <<>>, dtype |-> [byteorder |-> "|", kind |-> "V", itemsize |-> 0],
     layout |-> "C", values |-> <<>>]

RawIdle ==
    [pc |-> "idle", object_name |-> "", array |-> NoArray,
     compression |-> [t |-> "NoneType", v |-> "None"], acl |-> "",
     metadata |-> <<>>, error |-> "none",
     down_name |-> "", result |-> NoArray, down_error |-> "none"]

DaskIdle ==
    [pc |-> "idle", uploads |-> 0, object_name |-> "", arr |-> NoArray,
     metadata |-> [dask |-> <<>>, chunk_sizes |-> <<>>],
     manifest_written |-> FALSE, error |-> "none"]

ReaderIdle ==
    [pc |-> "idle", during |-> "idle", arr |-> NoArray, array |-> NoArray,
     error |-> "none"]

\* No sparse matrix: what a failed download_sparse_array leaves.
NoMatrix == [family |-> "none", shape |-> <<>>, parts |-> <<>>]

SparseIdle ==
    [pc |-> "idle", uploads |-> 0, object_name |-> "", input |-> NoMatrix,
     arr |-> NoMatrix, arrtype |-> "", attrs |-> <<>>, k |-> 0,
     error |-> "none",
     down_pc |-> "idle", during |-> "idle", read_input |-> NoMatrix,
     result |-> NoMatrix, down_error |-> "none"]

PutIdle ==
    [pc |-> "idle", interface |-> "", python |-> 3, object_name |-> "",
     body |-> <<>>, acl |-> "", route |-> "none", error |-> "none"]

FsIdle ==
    [pc |-> "idle", object_name |-> "", recursive |-> FALSE,
     before |-> <<>>, error |-> "none"]

\* utils.py:478-491  no stream made yet; file is the compressed file (what
\* each of its bytes makes the decompressor put out), tail what flush() adds
GzIdle ==
    [pc |-> "closed", file |-> <<>>, tail |-> 0, BLOCK_SIZE |-> 1, pos |-> 0,
     zip |-> FALSE, offset |-> 0, data |-> <<>>,
     returned |-> 0, op |-> "none", arg |-> 0, whence |-> 0, position |-> 0,
     result |-> <<>>, told |-> 0, error |-> "none"]

BranchIdle ==
    [pc |-> "idle", damaged |-> FALSE, keys |-> <<>>,
     value |-> [t |-> "NoneType", v |-> "None"], error |-> "none",
     up_pc |-> "idle", object_name |-> "",
     array_dict |-> [t |-> "NoneType", v |-> "None"], up_error |-> "none"]

(***************************************************************************)
(*                          Arithmetic helpers                             *)
(***************************************************************************)
Min(a, b) == IF a <= b THEN a ELSE b
Max(a, b) == IF a >= b THEN a ELSE b

\* int(np.ceil(a / float(b))) for integers a >= 0, b > 0
CeilDiv(a, b) == (a + b - 1) \div b

RECURSIVE Pow(_, _)
Pow(b, n) == IF n = 0 THEN 1 ELSE b * Pow(b, n - 1)

\* The product of the entries of a tuple (1 for the empty tuple).
RECURSIVE Prod(_)
Prod(t) == IF Len(t) = 0 THEN 1 ELSE t[1] * Prod(Tail(t))

(***************************************************************************)
(*                     S3Client.upload_multipart                           *)
(***************************************************************************)
\* The two part sizes the other way round.
SensibleBuffersizeInverted(nbytes_total, buffersize, u) ==
    IF nbytes_total < buffersize
    THEN IF nbytes_total < 10 * MIN_MPU_SIZE(u)
         THEN MIN_MPU_SIZE(u) * 2
         ELSE MIN_MPU_SIZE(u)
    ELSE buffersize

\* s3client.py:410-417: "check if our buffersize is sensible"
\* npotential = nbytes_total / float(MIN_MPU_SIZE);  npotential > 10
SensibleBuffersize(nbytes_total, buffersize, u) ==
    IF nbytes_total < buffersize
    THEN IF nbytes_total > 10 * MIN_MPU_SIZE(u)
         THEN MIN_MPU_SIZE(u) * 2
         ELSE MIN_MPU_SIZE(u)
    ELSE buffersize

\* s3client.py:420  nparts = int(np.floor(nbytes_total / float(buffersize)))
NParts(nbytes_total, buffersize) == nbytes_total \div buffersize

\* s3client.py:421  last_part_offset = int(nbytes_total - nparts*buffersize)
LastPartOffset(nbytes_total, buffersize) ==
    nbytes_total - NParts(nbytes_total, buffersize) * buffersize

\* s3client.py:423-427: "make sure we can upload"
CanUpload(nbytes_total, buffersize, u) ==
    /\ BelowMaxMpuSize(nbytes_total, u)
    /\ buffersize >= MIN_MPU_SIZE(u)
    /\ NParts(nbytes_total, buffersize) < MAX_MPU_PARTS
    /\ nbytes_total > buffersize

\* A numbering that starts at 0, as chunk_idx does.
PartNumberFromZero(chunk_idx) == chunk_idx

\* s3client.py:434  part_number = chunk_idx + 1
PartNumber(chunk_idx) == chunk_idx + 1

\* Parts that are all alike.
PartBuffersizeFlat(part_number, nparts, buffersize, last_part_offset) ==
    buffersize

\* s3client.py:435-436  the last part takes the remainder
PartBuffersize(part_number, nparts, buffersize, last_part_offset) ==
    IF part_number = nparts THEN buffersize + last_part_offset ELSE buffersize

\* The tag the store returns for a part: a digest of the bytes it received,
\* here the byte range [off, off+len) of the payload (s3client.py:442-450).
ETagOf(off, len) == <<"md5", off, len>>

\* The calls: <<payload size, requested part size>>, in MB.
MpuInputs ==
    { <<3, 4>>, <<7, 4>>, <<7, 5>>, <<7, 100>>, <<12, 5>>, <<50, 100>>, <<60, 5>>,
      <<60, 100>>, <<99, 100>>, <<100, 100>>, <<101, 100>>, <<250, 5>>,
      <<250, 100>>, <<5000, 100>>, <<11000, 5000>>, <<13000, 6000>>,
      <<50000, 5>>, <<50000, 6000>>, <<5242880, 6000>> }

AllIdle ==
    /\ mpu = MpuIdle
    /\ s3 = S3Idle
    /\ gen = GenIdle
    /\ store = EmptyBucket
    /\ raw = RawIdle
    /\ dask = DaskIdle
    /\ reader = ReaderIdle
    /\ sparse = SparseIdle
    /\ branch = BranchIdle
    /\ fs = FsIdle
    /\ putcall = PutIdle
    /\ gzstream = GzIdle

MpuInit == AllIdle

\* s3client.py:400-407: create the session at the store, then size the file
MpuCreate ==
    /\ mpu.pc = "idle"
    /\ \E input \in MpuInputs :
          mpu' = [mpu EXCEPT !.pc = "created", !.nbytes_total = input[1],
                             !.buffersize = input[2]]
    /\ s3' = [s3 EXCEPT !.session = "open",
                        !.calls = Append(@, [op |-> "create_multipart_upload"])]
    /\ UNCHANGED notMpu

\* s3client.py:409-431: part size, parts split and the asserts
MpuPlan ==
    /\ mpu.pc = "created"
    /\ LET buffersize == SensibleBuffersize(mpu.nbytes_total, mpu.buffersize, 1)
       IN  IF CanUpload(mpu.nbytes_total, buffersize, 1)
           THEN mpu' = [mpu EXCEPT
                          !.pc = "parts",
                          !.buffersize = buffersize,
                          !.nparts = NParts(mpu.nbytes_total, buffersize),
                          !.last_part_offset =
                              LastPartOffset(mpu.nbytes_total, buffersize)]
           ELSE mpu' = [mpu EXCEPT !.pc = "failed", !.buffersize = buffersize,
                                   !.error = "AssertionError"]
    /\ UNCHANGED <<s3, notMpu>>

\* s3client.py:433-451: one pass of the loop; the store acknowledges the
\* part with a tag, answers without one (KeyError on response['ETag']) or
\* the call raises.
MpuUploadPart ==
    /\ mpu.pc = "parts"
    /\ mpu.chunk_idx < mpu.nparts
    /\ LET part_number == PartNumber(mpu.chunk_idx)
           buffersize == PartBuffersize(part_number, mpu.nparts, mpu.buffersize,
                                        mpu.last_part_offset)
           \* file_object.read(buffersize)
           len == IF mpu.pos + buffersize <= mpu.nbytes_total
                  THEN buffersize ELSE mpu.nbytes_total - mpu.pos
           call == [op |-> "upload_part", PartNumber |-> part_number,
                    off |-> mpu.pos, len |-> len]
       IN  \E outcome \in {"ok", "notag", "raise"} :
             CASE outcome = "ok" ->
                    /\ s3' = [s3 EXCEPT
                                !.calls = Append(@, call),
                                !.parts = Append(@, [PartNumber |-> part_number,
                                                     ETag |-> ETagOf(mpu.pos, len),
                                                     off |-> mpu.pos, len |-> len])]
                    /\ mpu' = [mpu EXCEPT
                                !.buffersize = buffersize,
                                !.pos = mpu.pos + len,
                                !.Parts = Append(@, [PartNumber |-> part_number,
                                                     ETag |-> ETagOf(mpu.pos, len)]),
                                !.chunk_idx = @ + 1]
               [] outcome = "notag" ->
                    /\ s3' = [s3 EXCEPT !.calls = Append(@, call)]
                    /\ mpu' = [mpu EXCEPT !.pc = "failed", !.buffersize = buffersize,
                                          !.pos = mpu.pos + len,
                                          !.error = "KeyError"]
               [] outcome = "raise" ->
                    /\ s3' = [s3 EXCEPT !.calls = Append(@, call)]
                    /\ mpu' = [mpu EXCEPT !.pc = "failed", !.buffersize = buffersize,
                                          !.pos = mpu.pos + len,
                                          !.error = "ClientError"]
    /\ UNCHANGED notMpu

\* s3client.py:453-458: finalize
MpuComplete ==
    /\ mpu.pc = "parts"
    /\ mpu.chunk_idx = mpu.nparts
    /\ s3' = [s3 EXCEPT
                !.session = "completed",
                !.calls = Append(@, [op |-> "complete_multipart_upload",
                                     Parts |-> mpu.Parts])]
    /\ mpu' = [mpu EXCEPT !.pc = "done"]
    /\ UNCHANGED notMpu

MpuNext == MpuCreate \/ MpuPlan \/ MpuUploadPart \/ MpuComplete

SpecMPU == MpuInit /\ [][MpuNext]_vars

(***************************************************************************)
(*                      utils.generate_ndarray_chunks                      *)
(*                                                                         *)
(* Axes are numbered from 1 here (Python's axis a is a + 1); axis None is  *)
(* the empty tuple and axis a the 1-tuple <<a>>, -1 being <<-1>>.          *)
(***************************************************************************)

\* utils.py:400  arr.nbytes
NBytes(shape, itemsize) == Prod(shape) * itemsize

\* utils.py:401,404-406: nparts and the three asserts
ChunkingAllowed(shape, itemsize, buffersize, u) ==
    /\ BelowMaxMpuSize(NBytes(shape, itemsize), u)
    /\ buffersize >= MIN_MPU_SIZE(u)
    /\ CeilDiv(NBytes(shape, itemsize), buffersize) < MAX_MPU_PARTS

\* utils.py:413  if axis == -1: axis = (arr.ndim - 1)
ResolveAxis(axis, ndim) == IF axis = <<-1>> THEN <<ndim>> ELSE axis

\* utils.py:408-416: exp(logsum), the product of the other dimensions, and
\* factor, the number of dimensions the budget is spread over
OtherDims(shape, axis) ==
    IF axis = AxisNone THEN <<>>
    ELSE [i \in 1..Cardinality({d \in 1..Len(shape) : <<d>> # axis}) |->
             shape[IF <<i>> # axis /\ (\A d \in 1..i : <<d>> # axis)
                   THEN i ELSE i + 1]]
Factor(shape, axis) == IF axis = AxisNone THEN Len(shape) ELSE 1

\* utils.py:418-419  ii = int(np.ceil(np.exp(logii))) with
\* logii = (log(buffersize) - log(itemsize) - logsum)/factor, in real
\* arithmetic: the least integer e with e^factor * itemsize * exp(logsum)
\* >= buffersize.  Defined when factor > 0 and no other dimension is 0.
ExactEdge(shape, itemsize, axis, buffersize) ==
    LET denom == itemsize * Prod(OtherDims(shape, axis))
        factor == Factor(shape, axis)
    IN  IF factor = 1 THEN Max(1, CeilDiv(buffersize, denom))
        ELSE CHOOSE e \in 1..Max(1, CeilDiv(buffersize, denom)) :
                /\ Pow(e, factor) * denom >= buffersize
                /\ e = 1 \/ Pow(e - 1, factor) * denom < buffersize

\* Whether exp(logii) is an integer in real arithmetic: the floating point
\* value may then fall just above it and np.ceil gives one more.
EdgeIsExact(shape, itemsize, axis, buffersize) ==
    LET denom == itemsize * Prod(OtherDims(shape, axis))
        e == ExactEdge(shape, itemsize, axis, buffersize)
    IN  Pow(e, Factor(shape, axis)) * denom = buffersize

\* log(0) = -inf makes logii = inf, and x/0 (factor = 0) is inf or nan:
\* int() of it raises.
EdgeOverflows(shape, axis) ==
    \/ Factor(shape, axis) = 0
    \/ \E i \in 1..Len(OtherDims(shape, axis)) : OtherDims(shape, axis)[i] = 0

\* An edge count that leaves out the remainder chunk.
DimNChunksFloor(x, ii) == x \div ii

\* utils.py:420  int(np.ceil(x/ii)) + 1
DimNChunks(x, ii) == CeilDiv(x, ii) + 1

\* utils.py:420-424  chunks along each dimension
DimNChunksOf(shape, axis, ii) ==
    [d \in 1..Len(shape) |->
        IF axis = AxisNone \/ <<d>> = axis THEN DimNChunks(shape[d], ii) ELSE 1]

\* utils.py:426-428
ChunkShapes(shape, axis, ii) ==
    [d \in 1..Len(shape) |->
        IF axis = AxisNone THEN ii
        ELSE IF <<d>> # axis THEN shape[d] ELSE ii]

\* utils.py:430-432  the k-th tuple (k = 0, 1, ...) of
\* itertools.product(range(n[1]), ..., range(n[ndim])): last entry fastest
RECURSIVE ProductTuple(_, _)
ProductTuple(k, n) ==
    IF Len(n) = 0 THEN <<>>
    ELSE LET rest == Prod(Tail(n))
         IN  <<k \div rest>> \o ProductTuple(k % rest, Tail(n))

\* utils.py:433-434
ChunkBeg(chunk_shapes, chunk_coords) ==
    [d \in 1..Len(chunk_coords) |-> chunk_shapes[d] * chunk_coords[d]]
ChunkEnd(chunk_shapes, chunk_coords, shape) ==
    [d \in 1..Len(chunk_coords) |->
        Min(chunk_shapes[d] * (chunk_coords[d] + 1), shape[d])]

\* utils.py:435-436  arr[slice(beg, end)] along a dimension of length n:
\* numpy clips both ends to n; the result is [start, stop), empty when
\* beg >= end
SliceStart(beg, n) == Min(beg, n)
SliceStop(beg, end, n) == Max(Min(beg, n), Min(end, n))

\* The shapes, item sizes, budgets and axes of the calls.  u is the number
\* of size units in one MB: u = 1 counts itemsize and buffersize in MB (an
\* item of 1 MB stands for a block of elements), u = MB counts bytes.
MaxExtent == 4
GenShapes ==
    {<<a>> : a \in 0..MaxExtent} \cup
    {<<a, b>> : a \in 0..MaxExtent, b \in 0..MaxExtent} \cup
    {<<2, 3, 2>>, <<1, 0, 2>>}
GenInputs ==
    {[shape |-> sh, itemsize |-> s, axis |-> ax, buffersize |-> b, u |-> 1] :
        sh \in GenShapes, s \in {1, 2}, ax \in {AxisNone, <<-1>>, <<1>>},
        b \in {4, 5, 8}}
    \cup
    {[shape |-> <<2, 3>>, itemsize |-> 1, axis |-> <<2>>, buffersize |-> 5, u |-> 1],
     [shape |-> <<2, 3, 2>>, itemsize |-> 1, axis |-> <<2>>, buffersize |-> 5, u |-> 1],
     [shape |-> <<>>, itemsize |-> 1, axis |-> <<-1>>, buffersize |-> 5, u |-> 1],
     [shape |-> <<>>, itemsize |-> 1, axis |-> AxisNone, buffersize |-> 5, u |-> 1],
     [shape |-> <<50000>>, itemsize |-> 1, axis |-> <<-1>>, buffersize |-> 5, u |-> 1],
     [shape |-> <<5242880>>, itemsize |-> 1, axis |-> <<-1>>, buffersize |-> 1000, u |-> 1],
     [shape |-> <<1000, 1000>>, itemsize |-> 8, axis |-> <<2>>,
      buffersize |-> 5 * MB, u |-> MB],
     [shape |-> <<20, 10, 5>>, itemsize |-> 8, axis |-> <<-1>>,
      buffersize |-> 100 * MB, u |-> MB]}

GenInit == AllIdle

\* utils.py:373  the call: it only creates the generator
GenCall ==
    /\ gen.pc = "idle"
    /\ \E in \in GenInputs :
          gen' = [gen EXCEPT !.pc = "called", !.shape = in.shape,
                             !.itemsize = in.itemsize, !.axis = in.axis,
                             !.buffersize = in.buffersize, !.u = in.u]
    /\ UNCHANGED notGen

\* utils.py:399-431: the body up to the loop, run by the first next(): the
\* generators it can leave (two when exp(logii) is an integer)
GenPlans(g) ==
    LET axis == ResolveAxis(g.axis, Len(g.shape))
    IN  IF ~ChunkingAllowed(g.shape, g.itemsize, g.buffersize, g.u)
        THEN {[g EXCEPT !.pc = "failed", !.error = "AssertionError"]}
        ELSE IF EdgeOverflows(g.shape, axis)
        THEN {[g EXCEPT !.pc = "failed", !.axis = axis, !.error = "OverflowError"]}
        ELSE {[g EXCEPT !.pc = "iter", !.axis = axis, !.ii = ii,
                        !.dim_nchunks = DimNChunksOf(g.shape, axis, ii),
                        !.chunk_shapes = ChunkShapes(g.shape, axis, ii)] :
                 ii \in {ExactEdge(g.shape, g.itemsize, axis, g.buffersize)}
                        \cup
                        (IF EdgeIsExact(g.shape, g.itemsize, axis, g.buffersize)
                         THEN {ExactEdge(g.shape, g.itemsize, axis, g.buffersize) + 1}
                         ELSE {})}

\* utils.py:432  whether the loop has a next pass
GenExhausted(g) == g.k = Prod(g.dim_nchunks)

\* utils.py:432-436: the chunk the next pass of the loop yields
GenChunk(g) ==
    LET chunk_coords == ProductTuple(g.k, g.dim_nchunks)
    IN  [coords |-> chunk_coords,
         beg |-> ChunkBeg(g.chunk_shapes, chunk_coords),
         end |-> ChunkEnd(g.chunk_shapes, chunk_coords, g.shape)]

\* The generator after that pass.
GenAdvance(g) == [g EXCEPT !.k = @ + 1, !.yielded = Append(@, GenChunk(g))]

GenPlan ==
    /\ gen.pc = "called"
    /\ gen' \in GenPlans(gen)
    /\ UNCHANGED notGen

\* utils.py:432-436: one pass of the loop, yielding one chunk
GenYield ==
    /\ gen.pc = "iter"
    /\ ~GenExhausted(gen)
    /\ gen' = GenAdvance(gen)
    /\ UNCHANGED notGen

\* utils.py:432: the product is exhausted, StopIteration
GenStop ==
    /\ gen.pc = "iter"
    /\ GenExhausted(gen)
    /\ gen' = [gen EXCEPT !.pc = "done"]
    /\ UNCHANGED notGen

GenNext == GenCall \/ GenPlan \/ GenYield \/ GenStop

SpecChunks == GenInit /\ [][GenNext]_vars

\* Calls on long, thin arrays, whose isotropic plan has many chunks, and
\* calls the asserts turn down (sizes in bytes, or in MB where u = 1).
ManyChunkInputs ==
    {[shape |-> <<12000000, 1>>, itemsize |-> 1, axis |-> AxisNone,
      buffersize |-> 5 * MB, u |-> MB],
     [shape |-> <<3000, 2>>, itemsize |-> 8, axis |-> AxisNone,
      buffersize |-> 4 * MB, u |-> MB],
     [shape |-> <<50000>>, itemsize |-> 1, axis |-> <<-1>>,
      buffersize |-> 5, u |-> 1]}

\* utils.py:373  the call, on one of those arrays
GenCallMany ==
    /\ gen.pc = "idle"
    /\ \E in \in ManyChunkInputs :
          gen' = [gen EXCEPT !.pc = "called", !.shape = in.shape,
                             !.itemsize = in.itemsize, !.axis = in.axis,
                             !.buffersize = in.buffersize, !.u = in.u]
    /\ UNCHANGED notGen

GenManyNext == GenCallMany \/ GenPlan \/ GenYield \/ GenStop

SpecManyChunks == GenInit /\ [][GenManyNext]_vars

(***************************************************************************)
(*        Python values used by the array interface (interfaces.py)        *)
(*                                                                         *)
(* A str that the code formats or parses is a tuple of one-character       *)
(* strings; a str that is only compared is a TLA+ string.                  *)
(***************************************************************************)
Digits == <<"0", "1", "2", "3", "4", "5", "6", "7", "8", "9">>

\* str(n) for an integer n >= 0
RECURSIVE Str(_)
Str(n) == IF n < 10 THEN <<Digits[n + 1]>>
          ELSE Str(n \div 10) \o <<Digits[(n % 10) + 1]>>

IsDigit(c) == \E d \in 1..10 : Digits[d] = c

\* int(s): defined when s is a non-empty tuple of digits
RECURSIVE Int_(_, _)
Int_(s, acc) ==
    IF Len(s) = 0 THEN acc
    ELSE Int_(Tail(s), 10 * acc + ((CHOOSE d \in 1..10 : Digits[d] = Head(s)) - 1))
ParseInt(s) == Int_(s, 0)
IsIntLiteral(s) == Len(s) > 0 /\ \A i \in 1..Len(s) : IsDigit(s[i])

\* sep.join(parts)
RECURSIVE Join(_, _)
Join(sep, parts) ==
    IF Len(parts) = 0 THEN <<>>
    ELSE IF Len(parts) = 1 THEN parts[1]
    ELSE parts[1] \o <<sep>> \o Join(sep, Tail(parts))

\* s.split(sep): always at least one piece
RECURSIVE Split_(_, _, _)
Split_(s, sep, piece) ==
    IF Len(s) = 0 THEN <<piece>>
    ELSE IF Head(s) = sep THEN <<piece>> \o Split_(Tail(s), sep, <<>>)
    ELSE Split_(Tail(s), sep, Append(piece, Head(s)))
Split(s, sep) == Split_(s, sep, <<>>)

\* The concatenation of a tuple of tuples.
RECURSIVE Concat(_)
Concat(ss) == IF Len(ss) = 0 THEN <<>> ELSE Head(ss) \o Concat(Tail(ss))

Reverse(t) == [i \in 1..Len(t) |-> t[Len(t) + 1 - i]]

(***************************************************************************)
(*                      numpy arrays, dtypes and bytes                     *)
(*                                                                         *)
(* An array is [shape, dtype, layout, values]: values lists the elements   *)
(* in index (row-major) order, each as the unsigned integer its bytes      *)
(* spell; layout is how the elements lie in memory: "C" row-major, "F"     *)
(* column-major, "N" a strided view that is neither.                       *)
(*                                                                         *)
(* A run [v, n] stands for n bytes: n = 1 is the byte v, n > 1 an opaque   *)
(* block of n bytes with content v (one element of a wide void dtype).     *)
(***************************************************************************)
Dtype(byteorder, kind, itemsize) ==
    [byteorder |-> byteorder, kind |-> kind, itemsize |-> itemsize]

\* interfaces.py:584  array.dtype.str, e.g. '<f4'
DtypeStr(dtype) == <<dtype.byteorder, dtype.kind>> \o Str(dtype.itemsize)

\* interfaces.py:646  np.dtype(s)
NpDtype(s) == Dtype(s[1], s[2], ParseInt(SubSeq(s, 3, Len(s))))

\* The widest entry that is spelled out byte by byte.
MaxByteItem == 8

Byte(v) == [v |-> v, n |-> 1]

\* The bytes of one entry of nbytes bytes in memory.
ItemBytes(dtype, nbytes, v) ==
    IF nbytes > MaxByteItem THEN <<[v |-> v, n |-> nbytes]>>
    ELSE [j \in 1..nbytes |->
            Byte((v \div Pow(256, IF dtype.byteorder = ">"
                                  THEN nbytes - j ELSE j - 1)) % 256)]

\* The number of runs one entry of nbytes bytes takes.
ItemRuns(nbytes) == IF nbytes > MaxByteItem THEN 1 ELSE nbytes

\* The entry spelled by the runs bs.
RECURSIVE BytesValue(_, _)
BytesValue(dtype, bs) ==
    IF Len(bs) = 0 THEN 0
    ELSE IF bs[1].n > 1 THEN bs[1].v
    ELSE IF dtype.byteorder = ">"
         THEN bs[Len(bs)].v + 256 * BytesValue(dtype, SubSeq(bs, 1, Len(bs) - 1))
         ELSE bs[1].v + 256 * BytesValue(dtype, Tail(bs))

Size(shape) == Prod(shape)

\* A one-dimensional array of a positive multiple of BlockLen elements is
\* held block by block: each entry of values stands for BlockLen consecutive
\* elements (a run of BlockLen * itemsize bytes).
BlockLen == 67108864
IsBlocked(shape) ==
    Len(shape) = 1 /\ shape[1] > 0 /\ shape[1] % BlockLen = 0
\* The shape of the grid of entries of values.
GridShape(shape) ==
    IF IsBlocked(shape) THEN <<shape[1] \div BlockLen>> ELSE shape
\* The bytes one entry of values takes.
EntryBytes(shape, dtype) ==
    IF IsBlocked(shape) THEN BlockLen * dtype.itemsize ELSE dtype.itemsize

\* Whether Size(shape) * itemsize > limit, without forming the product.
NBytesExceeds(shape, itemsize, limit) == Size(shape) > limit \div itemsize

\* np.ravel_multi_index / unravel_index, 0-based, in both orders
RECURSIVE RavelC(_, _)
RavelC(idx, shape) ==
    IF Len(idx) = 0 THEN 0
    ELSE idx[1] * Prod(Tail(shape)) + RavelC(Tail(idx), Tail(shape))
RavelF(idx, shape) == RavelC(Reverse(idx), Reverse(shape))
UnravelC(k, shape) == ProductTuple(k, shape)
UnravelF(k, shape) == Reverse(ProductTuple(k, Reverse(shape)))

\* Row- and column-major memory hold the elements in the same sequence
\* when at most one dimension has more than one entry, or none is left.
SameInBothOrders(shape) ==
    \/ Size(shape) = 0
    \/ Cardinality({d \in 1..Len(shape) : shape[d] # 1}) <= 1

\* array.flags: numpy ignores the strides of dimensions of extent 1 and of
\* empty arrays
IsContiguous(array) == array.layout # "N" \/ Size(array.shape) <= 1
CContiguous(array) ==
    \/ array.layout = "C"
    \/ IsContiguous(array) /\ SameInBothOrders(array.shape)
FContiguous(array) ==
    \/ array.layout = "F"
    \/ IsContiguous(array) /\ SameInBothOrders(array.shape)

\* The elements in column-major sequence, given them in row-major sequence.
ColumnMajor(values, shape) ==
    [p \in 1..Len(values) |-> values[RavelC(UnravelF(p - 1, shape), shape) + 1]]

\* The elements in row-major sequence, given them in column-major sequence.
RowMajor(mem, shape) ==
    [i \in 1..Len(mem) |-> mem[RavelF(UnravelC(i - 1, shape), shape) + 1]]

\* array.T
Transpose(array) ==
    [shape |-> Reverse(array.shape), dtype |-> array.dtype,
     layout |-> IF array.layout = "C" THEN "F"
                ELSE IF array.layout = "F" THEN "C" ELSE "N",
     values |-> ColumnMajor(array.values, GridShape(array.shape))]

\* np.array(array, order = order): a contiguous copy
CopyInOrder(array, order) == [array EXCEPT !.layout = order]

\* array.data of a C-contiguous array, numcodecs' flat view of a contiguous
\* one: the bytes of the elements in memory sequence
MemoryItems(array) ==
    IF CContiguous(array) THEN array.values
    ELSE ColumnMajor(array.values, GridShape(array.shape))
MemoryBytes(array) ==
    Concat([i \in 1..Len(array.values) |->
               ItemBytes(array.dtype, EntryBytes(array.shape, array.dtype),
                         MemoryItems(array)[i])])

\* np.allclose(a, b) / array equality: shape and elements, whatever the layout
ArrayEqual(a, b) ==
    /\ a.shape = b.shape
    /\ a.dtype = b.dtype
    /\ a.values = b.values

(***************************************************************************)
(*                    Byte streams and their compression                   *)
(***************************************************************************)
\* get_fileobject_size(body) > limit, without forming the sum (utils.py:135)
RECURSIVE SizeExceeds(_, _)
SizeExceeds(body, limit) ==
    IF Len(body) = 0 THEN FALSE
    ELSE IF Head(body).n > limit THEN TRUE
    ELSE SizeExceeds(Tail(body), limit - Head(body).n)

\* get_fileobject_size(body) of a body below 2^31 bytes
RECURSIVE SizeOf(_)
SizeOf(body) == IF Len(body) = 0 THEN 0 ELSE Head(body).n + SizeOf(Tail(body))

\* get_fileobject_size(body) in whole MB, rounded down
RECURSIVE SizeMB_(_, _, _)
SizeMB_(body, mb, rest) ==
    IF Len(body) = 0 THEN mb
    ELSE LET r == rest + (Head(body).n % MB)
         IN  SizeMB_(Tail(body), mb + (Head(body).n \div MB) + (r \div MB), r % MB)
SizeMB(body) == SizeMB_(body, 0, 0)

\* The length of the run of copies of its first entry that body starts with.
RECURSIVE LeadingRun(_)
LeadingRun(body) ==
    IF Len(body) >= 2 /\ body[2] = body[1] THEN 1 + LeadingRun(Tail(body)) ELSE 1

\* A deflate stand-in: each run of equal bytes becomes <<count, byte>>.
RECURSIVE Deflate(_)
Deflate(body) ==
    IF Len(body) = 0 THEN <<>>
    ELSE LET k == LeadingRun(body)
         IN  <<Byte(k), body[1]>> \o Deflate(SubSeq(body, k + 1, Len(body)))

RECURSIVE Inflate(_)
Inflate(body) ==
    IF Len(body) < 2 THEN <<>>
    ELSE [i \in 1..body[1].v |-> body[2]] \o Inflate(SubSeq(body, 3, Len(body)))

\* interfaces.py:604-607  GzipFile(mode='wb').write(data); close(): the
\* magic number, the deflated data and the length of the data
GzipMagic == <<Byte(31), Byte(139)>>
GzipWrite(data) ==
    GzipMagic \o Deflate(data) \o <<[v |-> SizeOf(data), n |-> 4]>>

\* utils.py:468-542  what GzipInputStream(body) yields, read to its end
IsGzip(body) ==
    /\ Len(body) >= 3
    /\ SubSeq(body, 1, 2) = GzipMagic
    /\ Len(body) % 2 = 1
    /\ body[Len(body)].n = 4
    /\ ~SizeExceeds(Inflate(SubSeq(body, 3, Len(body) - 1)), body[Len(body)].v)
    /\ SizeOf(Inflate(SubSeq(body, 3, Len(body) - 1))) = body[Len(body)].v
GzipRead(body) == Inflate(SubSeq(body, 3, Len(body) - 1))

\* The numcodecs modules and the codec class each defines.
NumcodecsClass ==
    [zstd |-> "Zstd", lz4 |-> "LZ4", zlib |-> "Zlib", bz2 |-> "BZ2",
     gzip |-> "GZip"]
NumcodecsModules == DOMAIN NumcodecsClass

\* numcodecs' Codec.encode / decode: a frame header and the deflated data
CodecMagic == <<Byte(40), Byte(181)>>
CodecEncode(data) == CodecMagic \o Deflate(data)
IsCodecFrame(body) ==
    /\ Len(body) >= 2
    /\ SubSeq(body, 1, 2) = CodecMagic
    /\ Len(body) % 2 = 0
CodecDecode(body) == Inflate(SubSeq(body, 3, Len(body)))

(***************************************************************************)
(*         ArrayInterface.upload_raw_array and download_raw_array          *)
(***************************************************************************)
\* The values of the compression argument.
PyStr(v) == [t |-> "str", v |-> v]
PyNone == [t |-> "NoneType", v |-> "None"]
PyFalse == [t |-> "bool", v |-> "False"]

\* compression.lower() of the str values used
Lower(v) ==
    IF v = "Zstd" THEN "zstd" ELSE IF v = "LZ4" THEN "lz4" ELSE v

\* The largest nbytes that keeps gzip: 2**31 - 1 (interfaces.py:574).
GzipLimit == 2147483647

\* interfaces.py:574-576
EffectiveCompression(array, compression) ==
    IF /\ NBytesExceeds(array.shape, array.dtype.itemsize, GzipLimit)
       /\ compression = PyStr("gzip")
    THEN PyNone
    ELSE compression

\* interfaces.py:578
OrderOf(array) == IF FContiguous(array) THEN "F" ELSE "C"

\* interfaces.py:579-582
ContiguousIn(array, order) ==
    IF (order = "F" /\ FContiguous(array)) \/ (order = "C" /\ CContiguous(array))
    THEN array
    ELSE CopyInOrder(array, order)

\* interfaces.py:585  ','.join(map(str, array.shape))
ShapeStr(shape) == Join(",", [i \in 1..Len(shape) |-> Str(shape[i])])

\* interfaces.py:584-587
ArrayMeta(array, compression, order) ==
    [dtype |-> DtypeStr(array.dtype),
     shape |-> ShapeStr(array.shape),
     compression |-> compression.v,
     order |-> order]

\* A store object.  via tells how it was written; acl is the ACL the write
\* call gave the store ("unset" when it gave none).
NoObject == [body |-> <<>>, metadata |-> <<>>, acl |-> "unset", via |-> "none"]

\* interfaces.py:302-308 with s3client.py:306-321 and 377-458: the object
\* that upload_object stores, or the error that ends it.  A body on the
\* multipart route exceeds MPU_THRESHOLD and so is not below the part size
\* MPU_CHUNKSIZE (s3client.py:410): the part size stays as given.
UploadObject(body, acl, metadata) ==
    IF SizeExceeds(body, MPU_THRESHOLD(MB))
    THEN IF /\ BelowMaxMpuSize(SizeMB(body), 1)
            /\ MPU_CHUNKSIZE(MB) >= MIN_MPU_SIZE(MB)
            /\ SizeMB(body) \div MPU_CHUNKSIZE(1) < MAX_MPU_PARTS
            /\ SizeExceeds(body, MPU_CHUNKSIZE(MB))
         THEN [error |-> "none",
               object |-> [body |-> body, metadata |-> metadata,
                           acl |-> "unset", via |-> "multipart"]]
         ELSE [error |-> "AssertionError", object |-> NoObject]
    ELSE [error |-> "none",
          object |-> [body |-> body, metadata |-> metadata,
                      acl |-> acl, via |-> "put"]]

Failed(error) == [error |-> error, object |-> NoObject]

\* The transposition of interfaces.py:600-604 left out.
GzipPayloadUntransposed(array) == MemoryBytes(CopyInOrder(array, "C"))

\* interfaces.py:600-606  the data handed to GzipFile.write
GzipPayload(array) ==
    MemoryBytes(IF FContiguous(array) THEN Transpose(array) ELSE array)

\* No check of the caller's keys.
MetadataConflictsNever(metadata, meta) == FALSE

\* interfaces.py:589-595  any(k in meta for k in metadata.keys()), asserted
\* false before meta.update(metadata)
MetadataConflicts(metadata, meta) == \E k \in DOMAIN metadata : k \in DOMAIN meta

\* interfaces.py:574-623  upload_raw_array: the object it stores, or the
\* error that ends it
UploadRawArray(array0, compression0, acl, metadata) ==
    LET compression == EffectiveCompression(array0, compression0)
        order == OrderOf(array0)
        array == ContiguousIn(array0, order)
        meta == ArrayMeta(array, compression, order)
    IN  IF MetadataConflicts(metadata, meta)
        THEN Failed("AssertionError")
        ELSE IF compression = PyStr("gzip")
        THEN UploadObject(GzipWrite(GzipPayload(array)), acl, metadata @@ meta)
        ELSE IF compression.t # "str"
        THEN Failed("AttributeError")
        ELSE IF Lower(compression.v) \in NumcodecsModules
        THEN IF NumcodecsClass[Lower(compression.v)] = compression.v
             THEN UploadObject(CodecEncode(MemoryBytes(array)), acl,
                               metadata @@ meta)
             ELSE Failed("AttributeError")
        ELSE Failed("ValueError")

\* interfaces.py:645  map(int, shape.split(',')) if shape else ()
ParseShape(shape) ==
    IF shape = <<>> THEN <<>>
    ELSE [i \in 1..Len(Split(shape, ",")) |-> ParseInt(Split(shape, ",")[i])]
IsShapeStr(shape) ==
    shape = <<>> \/ \A i \in 1..Len(Split(shape, ",")) :
                        IsIntLiteral(Split(shape, ",")[i])

\* utils.py:439-466 with interfaces.py:648: np.empty(shape, dtype, order)
\* filled from the stream: the array, given the runs that made it
Filled(shape, dtype, order, data) ==
    LET k == ItemRuns(EntryBytes(shape, dtype))
        n == Size(GridShape(shape))
        to == [shape |-> shape, dtype |-> dtype, layout |-> order, values |-> <<>>]
        mem == [i \in 1..n |-> BytesValue(dtype, SubSeq(data, (i - 1) * k + 1, i * k))]
    IN  [to EXCEPT !.values = IF FContiguous(to)
                              THEN RowMajor(mem, GridShape(shape)) ELSE mem]

\* Filling in row-major sequence whatever the order: F_CONTIGUOUS not looked at.
FilledRowMajor(shape, dtype, order, data) ==
    LET k == ItemRuns(EntryBytes(shape, dtype))
        n == Size(GridShape(shape))
    IN  [shape |-> shape, dtype |-> dtype, layout |-> order,
         values |-> [i \in 1..n |->
                       BytesValue(dtype, SubSeq(data, (i - 1) * k + 1, i * k))]]

\* utils.py:458-464  whether the stream has the bytes the array takes
EnoughData(shape, dtype, data) ==
    Len(data) >= Size(GridShape(shape)) * ItemRuns(EntryBytes(shape, dtype))

Raised(error) == [error |-> error, array |-> NoArray]
Returned(array) == [error |-> "none", array |-> array]

\* A reading that takes no field for granted.
LacksAnyField(md) ==
    \E field \in {"shape", "dtype", "order", "compression"} : field \notin DOMAIN md

\* interfaces.py:644-646  the fields read with metadata[...]: KeyError when
\* one is absent
LacksField(md) == "shape" \notin DOMAIN md \/ "dtype" \notin DOMAIN md

\* interfaces.py:647  metadata.get('order', 'C')
OrderField(md) == IF "order" \in DOMAIN md THEN md.order ELSE "C"

\* interfaces.py:651  whether the body is taken as compressed
IsCompressed(md) == "compression" \in DOMAIN md /\ md.compression # "None"

\* interfaces.py:651-670  the data the array is read from, for a body that
\* its codec accepts
Datastream(md, body) ==
    IF ~IsCompressed(md) THEN body
    ELSE IF md.compression = "gzip" THEN GzipRead(body)
    ELSE CodecDecode(body)

\* interfaces.py:640-675  download_raw_array on a bucket: the array it
\* returns, or the error that ends it
DownloadRawArray(bucket, object_name) ==
    IF object_name \notin DOMAIN bucket THEN Raised("FileNotFoundError")
    ELSE
    LET object == bucket[object_name]
        md == object.metadata
    IN  IF LacksField(md) THEN Raised("KeyError")
        ELSE IF ~IsShapeStr(md.shape) THEN Raised("ValueError")
        ELSE
        LET shape == ParseShape(md.shape)
            dtype == NpDtype(md.dtype)
            order == OrderField(md)
            compressed == IsCompressed(md)
        IN  IF compressed /\ md.compression = "gzip" /\ ~IsGzip(object.body)
            THEN Raised("zlib.error")
            ELSE IF /\ compressed /\ md.compression # "gzip"
                    /\ Lower(md.compression) \notin NumcodecsModules
            THEN Raised("ImportError")
            ELSE IF /\ compressed /\ md.compression # "gzip"
                    /\ NumcodecsClass[Lower(md.compression)] # md.compression
            THEN Raised("AttributeError")
            ELSE IF compressed /\ md.compression # "gzip" /\ ~IsCodecFrame(object.body)
            THEN Raised("RuntimeError")
            ELSE
            LET data == Datastream(md, object.body)
            IN  IF ~EnoughData(shape, dtype, data) THEN Raised("ValueError")
                ELSE Returned(Filled(shape, dtype, order, data))

\* The arrays, compression arguments, extra metadata and names of the calls.
MaxRawExtent == 3
RawShapes ==
    {<<>>, <<2, 2, 2>>} \cup
    {<<a>> : a \in 0..MaxRawExtent} \cup
    {<<a, b>> : a \in 0..MaxRawExtent, b \in 0..MaxRawExtent}
RawDtypes ==
    {Dtype("|", "u", 1), Dtype("<", "i", 2), Dtype(">", "i", 2), Dtype("<", "f", 4)}

\* Entry i of the array with the given fill: all zero, or all different.
ElementValue(i, nbytes, fill) ==
    IF fill = "zeros" THEN 0
    ELSE (i * 257 + 258) % Pow(256, Min(nbytes, 3))

ArrayOf(shape, dtype, layout, fill) ==
    [shape |-> shape, dtype |-> dtype, layout |-> layout,
     values |-> [i \in 1..Size(GridShape(shape)) |->
                    ElementValue(i, EntryBytes(shape, dtype), fill)]]

\* float64 arrays of 1.5, 2 and 2.5 GB
BigArrays ==
    {ArrayOf(<<k * BlockLen>>, Dtype("<", "f", 8), "C", "range") : k \in 3..5}

RawArrays ==
    {ArrayOf(sh, dt, lay, fill) :
        sh \in RawShapes, dt \in RawDtypes, lay \in {"C", "F", "N"},
        fill \in {"zeros", "range"}}
    \cup BigArrays

RawCompressions ==
    {PyStr("gzip"), PyNone, PyFalse, PyStr("Zstd"), PyStr("zstd"), PyStr("snappy")}

RawMetadata ==
    {<<>>, [owner |-> "me"], [shape |-> "3"], [owner |-> "me", order |-> "C"]}

ObjectNames == {"test", "other"}
DEFAULT_ACL == "authenticated-read"

\* interfaces.py:549-623  one upload_raw_array call
RawUpload ==
    /\ raw.pc = "idle"
    /\ \E array \in RawArrays, compression \in RawCompressions,
          metadata \in RawMetadata :
          LET r == UploadRawArray(array, compression, DEFAULT_ACL, metadata)
          IN  /\ raw' = [raw EXCEPT !.pc = "uploaded", !.object_name = "test",
                                    !.array = array, !.compression = compression,
                                    !.acl = DEFAULT_ACL, !.metadata = metadata,
                                    !.error = r.error]
              /\ store' = IF r.error = "none"
                          THEN ("test" :> r.object) @@ store
                          ELSE store
    /\ UNCHANGED notRaw

\* interfaces.py:625-675  one download_raw_array call
RawDownload ==
    /\ raw.pc \in {"idle", "uploaded", "stored"}
    /\ \E object_name \in ObjectNames :
          LET r == DownloadRawArray(store, object_name)
          IN  raw' = [raw EXCEPT !.pc = "downloaded", !.down_name = object_name,
                                 !.result = r.array, !.down_error = r.error]
    /\ UNCHANGED <<store, notRaw>>

RawInit == AllIdle
RawNext == RawUpload \/ RawDownload
SpecRaw == RawInit /\ [][RawNext]_vars

\* Objects that some writer stores with upload_object: the bytes of an
\* array as upload_raw_array lays them out, whole, one byte short or one
\* byte long, encoded, under the metadata of upload_raw_array less some
\* fields.
DecodeArrays ==
    {ArrayOf(<<2, 3>>, Dtype("<", "i", 2), "C", "range"),
     ArrayOf(<<2, 3>>, Dtype("<", "i", 2), "F", "range"),
     ArrayOf(<<3>>, Dtype("|", "u", 1), "C", "range"),
     ArrayOf(<<0>>, Dtype("|", "u", 1), "C", "zeros")}
StoredCompressions == {"None", "gzip", "Zstd"}
PayloadCuts == {"exact", "short", "long"}
DroppedFields ==
    {{}, {"shape"}, {"dtype"}, {"order"}, {"compression"},
     {"order", "compression"}}

CutPayload(data, cut) ==
    CASE cut = "short" -> SubSeq(data, 1, Len(data) - 1)
      [] cut = "long" -> data \o <<Byte(7)>>
      [] OTHER -> data

\* interfaces.py:599-620  the body made of the data, per compression
EncodedBody(compression, data) ==
    CASE compression = "gzip" -> GzipWrite(data)
      [] compression = "Zstd" -> CodecEncode(data)
      [] OTHER -> data

\* interfaces.py:302-308  one upload_object call of such a writer
RawStore ==
    /\ raw.pc = "idle"
    /\ \E array0 \in DecodeArrays, compression \in StoredCompressions,
          cut \in PayloadCuts, dropped \in DroppedFields :
          LET order == OrderOf(array0)
              array == ContiguousIn(array0, order)
              meta == ArrayMeta(array, PyStr(compression), order)
              data == CutPayload(IF compression = "gzip"
                                 THEN GzipPayload(array)
                                 ELSE MemoryBytes(array), cut)
              r == UploadObject(EncodedBody(compression, data), DEFAULT_ACL,
                                [k \in DOMAIN meta \ dropped |-> meta[k]])
          IN  /\ raw' = [raw EXCEPT !.pc = "stored", !.object_name = "test",
                                    !.array = array0,
                                    !.compression = PyStr(compression),
                                    !.acl = DEFAULT_ACL, !.error = r.error]
              /\ store' = ("test" :> r.object) @@ store
    /\ UNCHANGED notRaw

DecodeNext == RawStore \/ RawDownload
SpecDecode == RawInit /\ [][DecodeNext]_vars

(***************************************************************************)
(*                     JSON documents (json.dumps/loads)                   *)
(*                                                                         *)
(* A document is a tree of numbers, strings, arrays and objects; an object *)
(* is the tuple of its <<key, value>> members.  Tuples and lists both      *)
(* become arrays, and arrays come back as lists.                           *)
(***************************************************************************)
JNum(n) == [t |-> "number", v |-> n]
JStr(str) == [t |-> "string", v |-> str]
JArr(items) == [t |-> "array", v |-> items]
JObj(members) == [t |-> "object", v |-> members]

\* key in d, and d[key], of a decoded object
HasKey(doc, key) == \E i \in 1..Len(doc.v) : doc.v[i][1] = key
Member(doc, key) == doc.v[CHOOSE i \in 1..Len(doc.v) : doc.v[i][1] = key][2]

\* A list of ints <-> an array of numbers; a list of lists of ints <-> an
\* array of arrays.
JInts(t) == JArr([i \in 1..Len(t) |-> JNum(t[i])])
Ints(doc) == [i \in 1..Len(doc.v) |-> doc.v[i].v]
JIntLists(ts) == JArr([i \in 1..Len(ts) |-> JInts(ts[i])])
IntLists(doc) == [i \in 1..Len(doc.v) |-> Ints(doc.v[i])]

\* len(json.dumps(doc)): items are separated by ', ', keys end in ': '
RECURSIVE JsonLen(_)
RECURSIVE JsonItemsLen(_)
JsonItemsLen(items) ==
    IF Len(items) = 0 THEN 0
    ELSE JsonLen(Head(items)) + (IF Len(items) > 1 THEN 2 ELSE 0)
         + JsonItemsLen(Tail(items))
JsonLen(doc) ==
    IF doc.t = "number" THEN Len(Str(doc.v))
    ELSE IF doc.t = "string" THEN Len(doc.v) + 2
    ELSE IF doc.t = "array" THEN 2 + JsonItemsLen(doc.v)
    ELSE 2 + JsonItemsLen([i \in 1..Len(doc.v) |->
                             JArr(<<JStr(doc.v[i][1]), doc.v[i][2]>>)])
           - 2 * Len(doc.v)

\* interfaces.py:431-432  StringIO(json.dumps(ddict).encode()): one run
\* holding the text
JsonBody(doc) == <<[v |-> doc, n |-> JsonLen(doc)]>>

(***************************************************************************)
(*        ArrayInterface.upload_dask_array and download_dask_array         *)
(***************************************************************************)
SEPARATOR == "/"

\* utils.py:60-73  pathjoin(a, b) for a name b that does not start with the
\* separator and a name a that does not end with it
PathJoin(a, b) == IF a = "" THEN b ELSE a \o SEPARATOR \o b

\* The str spelled by a tuple of characters.
RECURSIVE StrCat(_)
StrCat(chars) == IF Len(chars) = 0 THEN "" ELSE Head(chars) \o StrCat(Tail(chars))

\* '%04i' % idx
RECURSIVE ZeroPad(_, _)
ZeroPad(chars, width) ==
    IF Len(chars) >= width THEN chars ELSE ZeroPad(<<"0">> \o chars, width)

\* A part name that leaves the index out.
PartNameUnnumbered(object_name, idx) == PathJoin(object_name, "pt0000")

\* interfaces.py:814  self.pathjoin(object_name, 'pt%04i' % idx)
PartName(object_name, idx) ==
    PathJoin(object_name, "pt" \o StrCat(ZeroPad(Str(idx), 4)))

ManifestName(object_name) == PathJoin(object_name, "metadata.json")

\* The extent a chunk has along dimension d of an array of that shape.
ChunkExtent(chunk, shape, d) ==
    SliceStop(chunk.beg[d], chunk.end[d], shape[d])
        - SliceStart(chunk.beg[d], shape[d])

\* utils.py:435-436 with interfaces.py:809: arr[slicers].copy(), a
\* row-major array of its own
ChunkCopy(arr, chunk) ==
    LET shape == [d \in 1..Len(arr.shape) |-> ChunkExtent(chunk, arr.shape, d)]
        start == [d \in 1..Len(arr.shape) |-> SliceStart(chunk.beg[d], arr.shape[d])]
    IN  [shape |-> shape, dtype |-> arr.dtype, layout |-> "C",
         values |-> [i \in 1..Size(shape) |->
                       arr.values[RavelC([d \in 1..Len(shape) |->
                                             start[d] + UnravelC(i - 1, shape)[d]],
                                         arr.shape) + 1]]]

\* The entries of a finite set of integers in increasing order.
RECURSIVE Sorted(_)
Sorted(S) ==
    IF S = {} THEN <<>>
    ELSE LET least == CHOOSE x \in S : \A y \in S : x <= y
         IN  <<least>> \o Sorted(S \ {least})

\* One entry per chunk, with nothing merged.
DaskChunksUnmerged(metadata, ndim) ==
    [dim \in 1..ndim |->
        [i \in 1..Len(metadata.dask) |-> metadata.chunk_sizes[i][dim]]]

\* interfaces.py:819-828: per dimension, the size of the first chunk seen at
\* each coordinate, in coordinate order
DaskChunks(metadata, ndim) ==
    [dim \in 1..ndim |->
        LET coords == Sorted({metadata.dask[i][1][dim] : i \in 1..Len(metadata.dask)})
        IN  [c \in 1..Len(coords) |->
                LET first == CHOOSE i \in 1..Len(metadata.dask) :
                                /\ metadata.dask[i][1][dim] = coords[c]
                                /\ \A j \in 1..(i - 1) :
                                       metadata.dask[j][1][dim] # coords[c]
                IN  metadata.chunk_sizes[first][dim]]]

\* interfaces.py:802-806,827-828 through json.dumps (interfaces.py:431)
ManifestJson(arr, metadata) ==
    JObj(<< <<"shape", JInts(arr.shape)>>,
            <<"dtype", JStr(DtypeStr(arr.dtype))>>,
            <<"dask", JArr([i \in 1..Len(metadata.dask) |->
                              JArr(<<JInts(metadata.dask[i][1]),
                                     JStr(metadata.dask[i][2])>>)])>>,
            <<"chunk_sizes", JIntLists(metadata.chunk_sizes)>>,
            <<"chunks", JIntLists(DaskChunks(metadata, Len(arr.shape)))>> >>)

\* interfaces.py:422-432  upload_json: the object it stores
UploadJson(doc, acl, metadata) == UploadObject(JsonBody(doc), acl, metadata)

\* Whether upload_dask_array goes on after this outcome of a part upload.
PartUploaded(error) == error = "none"

\* The manifest written whether or not the loop ended well.
ManifestDueAnyway(d, g) == d.pc \in {"loop", "failed"} /\ g.pc = "iter"

\* interfaces.py:829  whether the manifest is due: the loop over the
\* generator has ended
ManifestDue(d, g) == d.pc = "loop" /\ g.pc = "iter" /\ GenExhausted(g)

\* The manifest fields download_dask_array reads (interfaces.py:858-864).
ManifestChunks(doc) == IntLists(Member(doc, "chunks"))
ManifestShape(doc) == Ints(Member(doc, "shape"))
ManifestDtype(doc) == NpDtype(Member(doc, "dtype").v)
ManifestParts(doc) ==
    [i \in 1..Len(Member(doc, "dask").v) |->
        <<Ints(Member(doc, "dask").v[i].v[1]), Member(doc, "dask").v[i].v[2].v>>]

RECURSIVE Sum(_)
Sum(t) == IF Len(t) = 0 THEN 0 ELSE Head(t) + Sum(Tail(t))

\* dask: where block c of a dimension cut into these sizes starts, and the
\* block that holds index x
BlockOffset(sizes, c) == Sum(SubSeq(sizes, 1, c))
BlockIndex(sizes, x) ==
    CHOOSE c \in 0..(Len(sizes) - 1) :
        BlockOffset(sizes, c) <= x /\ x < BlockOffset(sizes, c) + sizes[c + 1]

\* interfaces.py:863-864  the graph: block coordinates -> part name, a later
\* entry replacing an earlier one with the same coordinates
GraphHas(parts, coords) == \E i \in 1..Len(parts) : parts[i][1] = coords
GraphPart(parts, coords) ==
    parts[CHOOSE i \in 1..Len(parts) :
             /\ parts[i][1] = coords
             /\ \A j \in (i + 1)..Len(parts) : parts[j][1] # coords][2]

\* interfaces.py:856-867 and np.asarray of the result: da.Array checks that
\* the chunks add up to the shape, each block is fetched by
\* download_raw_array, and the blocks are put side by side
DownloadDaskArray(bucket, object_name) ==
    IF ManifestName(object_name) \notin DOMAIN bucket THEN Raised("IOError")
    ELSE
    LET doc == bucket[ManifestName(object_name)].body[1].v
        chunks == ManifestChunks(doc)
        shape == ManifestShape(doc)
        parts == ManifestParts(doc)
        nblocks == [d \in 1..Len(chunks) |-> Len(chunks[d])]
        grid == {ProductTuple(k, nblocks) : k \in 0..(Prod(nblocks) - 1)}
        block == [c \in grid |-> DownloadRawArray(bucket, GraphPart(parts, c))]
    IN  IF \/ Len(chunks) # Len(shape)
           \/ \E d \in 1..Len(shape) : Sum(chunks[d]) # shape[d]
        THEN Raised("ValueError")
        ELSE IF \E c \in grid : ~GraphHas(parts, c) THEN Raised("KeyError")
        ELSE IF \E c \in grid : block[c].error # "none"
        THEN Raised(block[CHOOSE c \in grid : block[c].error # "none"].error)
        ELSE IF \E c \in grid :
                   block[c].array.shape # [d \in 1..Len(shape) |-> chunks[d][c[d] + 1]]
        THEN Raised("ValueError")
        ELSE Returned(
            [shape |-> shape, dtype |-> ManifestDtype(doc), layout |-> "C",
             values |->
                [i \in 1..Size(shape) |->
                    LET idx == UnravelC(i - 1, shape)
                        c == [d \in 1..Len(shape) |-> BlockIndex(chunks[d], idx[d])]
                        at == [d \in 1..Len(shape) |->
                                  idx[d] - BlockOffset(chunks[d], c[d])]
                    IN  block[c].array.values[
                            RavelC(at, block[c].array.shape) + 1]]])

\* The arrays, axes and chunk budgets of the upload_dask_array calls.  The
\* elements are wide, so that a few of them fill a chunk.
MaxDaskExtent == 2
MaxUploads == 2
dask_chunksize == 100
DASK_CHUNKSIZE == dask_chunksize * MB
DaskShapes ==
    {<<a>> : a \in 0..MaxDaskExtent} \cup
    {<<a, b>> : a \in 0..MaxDaskExtent, b \in 0..MaxDaskExtent}
DaskDtypes == {Dtype("|", "V", 2 * MB), Dtype("|", "V", 8 * MB)}
DaskInputs ==
    {[arr |-> ArrayOf(sh, dt, lay, "range"), axis |-> ax, buffersize |-> 5 * MB] :
        sh \in DaskShapes, dt \in DaskDtypes, lay \in {"C", "F", "N"},
        ax \in {AxisNone, <<-1>>, <<1>>}}
    \cup
    {[arr |-> ArrayOf(<<2, 3>>, Dtype("<", "i", 2), "F", "range"),
      axis |-> <<-1>>, buffersize |-> DASK_CHUNKSIZE],
     [arr |-> ArrayOf(<<2, 2>>, Dtype("|", "V", 2 * MB), "C", "range"),
      axis |-> <<-1>>, buffersize |-> 4 * MB]}
DaskReuploads ==
    {[arr |-> ArrayOf(<<1>>, Dtype("|", "V", 2 * MB), "C", "zeros"),
      axis |-> <<-1>>, buffersize |-> 5 * MB],
     [arr |-> ArrayOf(<<2, 2>>, Dtype("|", "V", 8 * MB), "F", "zeros"),
      axis |-> AxisNone, buffersize |-> 5 * MB],
     [arr |-> ArrayOf(<<2, 2>>, Dtype("|", "V", 2 * MB), "C", "zeros"),
      axis |-> <<-1>>, buffersize |-> 4 * MB]}

\* interfaces.py:776,802-808: the call, up to the creation of the generator
DaskCall ==
    /\ dask.pc \in {"idle", "done", "failed"}
    /\ dask.uploads < MaxUploads
    /\ \E in \in (IF dask.uploads = 0 THEN DaskInputs ELSE DaskReuploads) :
          /\ dask' = [pc |-> "loop", uploads |-> dask.uploads + 1,
                      object_name |-> "test", arr |-> in.arr,
                      metadata |-> [dask |-> <<>>, chunk_sizes |-> <<>>],
                      manifest_written |-> FALSE, error |-> "none"]
          /\ gen' = [GenIdle EXCEPT !.pc = "called", !.shape = in.arr.shape,
                                    !.itemsize = in.arr.dtype.itemsize,
                                    !.axis = in.axis,
                                    !.buffersize = in.buffersize, !.u = MB]
    /\ UNCHANGED <<store, reader, notDask>>

\* interfaces.py:808  the first next() of the generator raises
DaskPlanFails ==
    /\ dask.pc = "loop"
    /\ gen.pc = "called"
    /\ \E g \in GenPlans(gen) :
          /\ g.pc = "failed"
          /\ gen' = g
          /\ dask' = [dask EXCEPT !.pc = "failed", !.error = g.error]
    /\ UNCHANGED <<store, reader, notDask>>

\* interfaces.py:808-816  one pass of the loop: the next chunk is copied,
\* listed and uploaded; the store may refuse the upload
DaskUploadPart ==
    /\ dask.pc = "loop"
    /\ \E g \in (IF gen.pc = "called" THEN GenPlans(gen) ELSE {gen}),
          outcome \in {"ok", "raise"} :
          /\ g.pc = "iter"
          /\ ~GenExhausted(g)
          /\ LET chunk_arr == ChunkCopy(dask.arr, GenChunk(g))
                 part_name == PartName(dask.object_name, g.k)
                 r == IF outcome = "ok"
                      THEN UploadRawArray(chunk_arr, PyStr("gzip"), DEFAULT_ACL, <<>>)
                      ELSE Failed("ClientError")
                 listed == [dask EXCEPT
                              !.metadata.dask =
                                  Append(@, <<GenChunk(g).coords, part_name>>),
                              !.metadata.chunk_sizes = Append(@, chunk_arr.shape)]
             IN  /\ gen' = GenAdvance(g)
                 /\ dask' = IF PartUploaded(r.error) THEN listed
                            ELSE [listed EXCEPT !.pc = "failed", !.error = r.error]
                 /\ store' = IF r.error = "none"
                             THEN (part_name :> r.object) @@ store
                             ELSE store
    /\ UNCHANGED <<reader, notDask>>

\* interfaces.py:818-829  after the loop: the chunks are laid out the dask
\* way and the manifest is uploaded
DaskUploadManifest ==
    /\ ManifestDue(dask, gen)
    /\ LET r == UploadJson(ManifestJson(dask.arr, dask.metadata), DEFAULT_ACL, <<>>)
       IN  /\ store' = (ManifestName(dask.object_name) :> r.object) @@ store
           /\ dask' = [dask EXCEPT !.pc = "done", !.manifest_written = TRUE]
    /\ gen' = [gen EXCEPT !.pc = "done"]
    /\ UNCHANGED <<reader, notDask>>

\* interfaces.py:837-867  a reader: download_dask_array and np.asarray of
\* what it returns, at any moment
DaskDownload ==
    /\ reader.pc = "idle"
    /\ LET r == DownloadDaskArray(store, "test")
       IN  reader' = [pc |-> "read", during |-> dask.pc, arr |-> dask.arr,
                      array |-> r.array, error |-> r.error]
    /\ UNCHANGED <<store, dask, gen, notDask>>

DaskInit == AllIdle
DaskNext ==
    \/ DaskCall
    \/ DaskPlanFails
    \/ DaskUploadPart
    \/ DaskUploadManifest
    \/ DaskDownload
SpecDask == DaskInit /\ [][DaskNext]_vars

(***************************************************************************)
(*      ArrayInterface.upload_sparse_array and download_sparse_array       *)
(*                                                                         *)
(* A sparse matrix is its family, its shape and its constituent arrays by  *)
(* attribute name; a dok or lil matrix holds its items, the set of         *)
(* <<row, column, value>> of its stored elements.                          *)
(***************************************************************************)
IndexDtype == Dtype("<", "i", 4)
ValueDtype == Dtype("<", "f", 4)

\* The one-dimensional array of these values.
Vector(dtype, values) ==
    [shape |-> <<Len(values)>>, dtype |-> dtype, layout |-> "C",
     values |-> values]

\* The items in the order of a compressed format: by major index, then by
\* minor index.
Ordered(items, major, minor, nminor) ==
    [k \in 1..Cardinality(items) |->
        CHOOSE e \in items :
            Cardinality({f \in items :
                f[major] * nminor + f[minor] <= e[major] * nminor + e[minor]}) = k]

\* data, indices and indptr of a compressed format (scipy's csr and csc)
Compressed(items, major, minor, nmajor, nminor) ==
    LET ordered == Ordered(items, major, minor, nminor)
    IN  [data |-> Vector(ValueDtype, [k \in 1..Len(ordered) |-> ordered[k][3]]),
         indices |-> Vector(IndexDtype,
                            [k \in 1..Len(ordered) |-> ordered[k][minor]]),
         indptr |-> Vector(IndexDtype,
                           [a \in 1..(nmajor + 1) |->
                               Cardinality({e \in items : e[major] < a - 1})])]

\* The constituent arrays scipy keeps for a matrix with these items.
CsrParts(items, shape) == Compressed(items, 1, 2, shape[1], shape[2])
CscParts(items, shape) == Compressed(items, 2, 1, shape[2], shape[1])
\* bsr with 1 x 1 blocks: data is (nnz, 1, 1)
BsrParts(items, shape) ==
    [CsrParts(items, shape) EXCEPT !.data.shape = <<Cardinality(items), 1, 1>>]
CooParts(items, shape) ==
    LET ordered == Ordered(items, 1, 2, shape[2])
    IN  [row |-> Vector(IndexDtype, [k \in 1..Len(ordered) |-> ordered[k][1]]),
         col |-> Vector(IndexDtype, [k \in 1..Len(ordered) |-> ordered[k][2]]),
         data |-> Vector(ValueDtype, [k \in 1..Len(ordered) |-> ordered[k][3]])]
\* dia: one row of data per diagonal, data[k, j] the element of column j
DiaParts(items, shape) ==
    LET offsets == Sorted({e[2] - e[1] : e \in items})
    IN  [data |->
            [shape |-> <<Len(offsets), shape[2]>>, dtype |-> ValueDtype,
             layout |-> "C",
             values |->
                [i \in 1..(Len(offsets) * shape[2]) |->
                    LET k == ((i - 1) \div shape[2]) + 1
                        j == (i - 1) % shape[2]
                        at == {e \in items : e[2] = j /\ e[1] = j - offsets[k]}
                    IN  IF at = {} THEN 0 ELSE (CHOOSE e \in at : TRUE)[3]]],
         offsets |-> Vector(IndexDtype, offsets)]

ExactFamilies == {"csr", "csc", "bsr", "coo", "dia"}

SparseMatrix(family, items, shape) ==
    [family |-> family, shape |-> shape,
     parts |-> CASE family = "csr" -> CsrParts(items, shape)
                 [] family = "csc" -> CscParts(items, shape)
                 [] family = "bsr" -> BsrParts(items, shape)
                 [] family = "coo" -> CooParts(items, shape)
                 [] family = "dia" -> DiaParts(items, shape)
                 [] OTHER -> [items |-> items]]

\* interfaces.py:897  arr.tocsr() of a dok or lil matrix
ToCsr(arr) == SparseMatrix("csr", arr.parts.items, arr.shape)

\* interfaces.py:881-899  the isinstance dispatch: the matrix that is
\* stored, its attrs and its arrtype
SparseAttrs(family) ==
    CASE family = "coo" -> <<"row", "col", "data">>
      [] family = "dia" -> <<"data", "offsets">>
      [] OTHER -> <<"data", "indices", "indptr">>
SparseStored(arr) == IF arr.family \in ExactFamilies THEN arr ELSE ToCsr(arr)

\* interfaces.py:906  dict(type=arrtype, attrs=attrs, shape=arr.shape)
SparseManifest(arrtype, attrs, shape) ==
    JObj(<< <<"type", JStr(arrtype)>>,
            <<"attrs", JArr([i \in 1..Len(attrs) |-> JStr(attrs[i])])>>,
            <<"shape", JInts(shape)>> >>)

\* interfaces.py:934-947  the constructor arguments, by position: for coo
\* (data, (row, col)), for dia (data, offsets), else (data, indices, indptr)
ConstructorArgs(arrtype, d) ==
    CASE arrtype = "coo" -> <<d["data"], d["row"], d["col"]>>
      [] arrtype = "dia" -> <<d["data"], d["offsets"]>>
      [] OTHER -> <<d["data"], d["indices"], d["indptr"]>>

\* The matrix a scipy constructor makes of positional arguments.
Construct(arrtype, args, shape) ==
    [family |-> arrtype, shape |-> shape,
     parts |-> CASE arrtype = "coo" ->
                      [data |-> args[1], row |-> args[2], col |-> args[3]]
                 [] arrtype = "dia" -> [data |-> args[1], offsets |-> args[2]]
                 [] OTHER ->
                      [data |-> args[1], indices |-> args[2], indptr |-> args[3]]]

NoSparse(error) == [error |-> error, matrix |-> NoMatrix]

BuildsMatrixAlways(arrtype) == TRUE

\* interfaces.py:934-947  the if/elif chain over arrtype binds arr for the
\* five families and has no else
BuildsMatrix(arrtype) == arrtype \in ExactFamilies

\* interfaces.py:910-949  download_sparse_array
DownloadSparseArray(bucket, object_name) ==
    IF ManifestName(object_name) \notin DOMAIN bucket THEN NoSparse("IOError")
    ELSE
    LET metadata == bucket[ManifestName(object_name)].body[1].v
        arrtype == Member(metadata, "type").v
        shape == Ints(Member(metadata, "shape"))
        attrs == [i \in 1..Len(Member(metadata, "attrs").v) |->
                     Member(metadata, "attrs").v[i].v]
        got == [attr \in {attrs[i] : i \in 1..Len(attrs)} |->
                   DownloadRawArray(bucket, PathJoin(object_name, attr))]
        d == [attr \in DOMAIN got |-> got[attr].array]
    IN  IF \E i \in 1..Len(attrs) : got[attrs[i]].error # "none"
        THEN NoSparse(got[attrs[CHOOSE i \in 1..Len(attrs) :
                            /\ got[attrs[i]].error # "none"
                            /\ \A j \in 1..(i - 1) :
                                  got[attrs[j]].error = "none"]].error)
        ELSE IF ~BuildsMatrix(arrtype) THEN NoSparse("UnboundLocalError")
        ELSE IF \E i \in 1..Len(SparseAttrs(arrtype)) :
                   SparseAttrs(arrtype)[i] \notin DOMAIN d
        THEN NoSparse("KeyError")
        ELSE [error |-> "none",
              matrix |-> Construct(arrtype, ConstructorArgs(arrtype, d), shape)]

\* The stored elements of the matrices: <<shape, items>>.
SparseContents ==
    { <<<<2, 3>>, {<<0, 0, 1>>, <<0, 2, 2>>, <<1, 1, 3>>}>>,
      <<<<2, 2>>, {}>>,
      <<<<3, 2>>, {<<0, 1, 5>>, <<2, 0, 6>>, <<2, 1, 7>>}>> }

\* A csr matrix of one row with 2^28 stored float64 elements: 2 GB of data
BigCsr ==
    [family |-> "csr", shape |-> <<1, 4 * BlockLen>>,
     parts |-> [data |-> ArrayOf(<<4 * BlockLen>>, Dtype("<", "f", 8), "C", "range"),
                indices |-> ArrayOf(<<4 * BlockLen>>, IndexDtype, "C", "range"),
                indptr |-> Vector(IndexDtype, <<0, 4 * BlockLen>>)]]

\* The matrices uploaded; the dia ones have no diagonal below the main one.
SparseInputs ==
    {SparseMatrix(family, c[2], c[1]) :
        family \in ExactFamilies \cup {"dok", "lil"},
        c \in {x \in SparseContents :
                 \A e \in x[2] : e[2] >= e[1]} }
    \cup {SparseMatrix(family, c[2], c[1]) :
        family \in (ExactFamilies \ {"dia"}) \cup {"dok", "lil"},
        c \in SparseContents}
    \cup {BigCsr}

\* The matrices of a later upload under the same name.
SparseReuploads ==
    {m \in SparseInputs : /\ m.shape = <<2, 3>>
                          /\ m.family \in {"csr", "coo", "dia"}}

MaxSparseUploads == 2

\* interfaces.py:870-899  the call up to the loop over attrs
SparseCall ==
    /\ sparse.pc \in {"idle", "done", "failed"}
    /\ sparse.uploads < MaxSparseUploads
    /\ \E arr \in (IF sparse.uploads = 0 THEN SparseInputs ELSE SparseReuploads) :
          sparse' = [sparse EXCEPT !.pc = "parts", !.uploads = @ + 1,
                                   !.object_name = "test", !.input = arr,
                                   !.arr = SparseStored(arr),
                                   !.arrtype = SparseStored(arr).family,
                                   !.attrs = SparseAttrs(arr.family),
                                   !.k = 0, !.error = "none"]
    /\ UNCHANGED <<store, notSparse>>

\* interfaces.py:902-903  one pass of the loop: upload_raw_array of an attr
SparseUploadPart ==
    /\ sparse.pc = "parts"
    /\ sparse.k < Len(sparse.attrs)
    /\ LET attr == sparse.attrs[sparse.k + 1]
           r == IF attr \in DOMAIN sparse.arr.parts
                THEN UploadRawArray(sparse.arr.parts[attr], PyStr("gzip"),
                                    DEFAULT_ACL, <<>>)
                ELSE Failed("AttributeError")
       IN  IF r.error = "none"
           THEN /\ store' = (PathJoin(sparse.object_name, attr) :> r.object) @@ store
                /\ sparse' = [sparse EXCEPT !.k = @ + 1]
           ELSE /\ store' = store
                /\ sparse' = [sparse EXCEPT !.pc = "failed", !.error = r.error]
    /\ UNCHANGED notSparse

\* interfaces.py:905-907  the manifest, after the parts
SparseUploadManifest ==
    /\ sparse.pc = "parts"
    /\ sparse.k = Len(sparse.attrs)
    /\ LET r == UploadJson(SparseManifest(sparse.arrtype, sparse.attrs,
                                         sparse.arr.shape), DEFAULT_ACL, <<>>)
       IN  store' = (ManifestName(sparse.object_name) :> r.object) @@ store
    /\ sparse' = [sparse EXCEPT !.pc = "done"]
    /\ UNCHANGED notSparse

\* interfaces.py:910-949  one download_sparse_array call, at any moment
SparseDownload ==
    /\ sparse.down_pc = "idle"
    /\ LET r == DownloadSparseArray(store, "test")
       IN  sparse' = [sparse EXCEPT !.down_pc = "read", !.during = sparse.pc,
                                    !.read_input = sparse.input,
                                    !.result = r.matrix,
                                    !.down_error = r.error]
    /\ UNCHANGED <<store, notSparse>>

SparseInit == AllIdle
SparseNext ==
    \/ SparseCall
    \/ SparseUploadPart
    \/ SparseUploadManifest
    \/ SparseDownload
SpecSparse == SparseInit /\ [][SparseNext]_vars

\* Type tags that upload_sparse_array never writes.
ForeignTypes == {"dok", "lil", "CSR", ""}

\* interfaces.py:422-432  upload_json by another writer over the manifest of
\* a finished upload: the same attrs and shape under another type tag
SparseRetag ==
    /\ sparse.pc = "done"
    /\ \E arrtype \in ForeignTypes :
          LET r == UploadJson(SparseManifest(arrtype, sparse.attrs,
                                            sparse.arr.shape), DEFAULT_ACL, <<>>)
          IN  store' = (ManifestName(sparse.object_name) :> r.object) @@ store
    /\ sparse' = [sparse EXCEPT !.pc = "retagged"]
    /\ UNCHANGED notSparse

RetagNext ==
    \/ SparseCall
    \/ SparseUploadPart
    \/ SparseUploadManifest
    \/ SparseRetag
    \/ SparseDownload
SpecRetag == SparseInit /\ [][RetagNext]_vars

(***************************************************************************)
(*   cloud2dict and the downloads on a branch other writers have touched   *)
(*                        (interfaces.py:704-755)                          *)
(***************************************************************************)
\* The names the objects of a stored branch have under it, in the order the
\* store lists them.
LeafOrder ==
    <<"a", "b", "col", "data", "indices", "indptr", "metadata.json", "offsets",
      "pt0000", "pt0001", "pt0002", "pt0003", "pt0004", "pt0005", "pt0006",
      "pt0007", "pt0008", "row">>

\* Whether the name begins with the prefix.
StartsWith(name, prefix) ==
    /\ Len(name) >= Len(prefix)
    /\ SubSeq(name, 1, Len(prefix)) = prefix

\* utils.py:348-365  mk_aws_path of a path with no separator at its end
MkAwsPath(path) == IF path = "" THEN "" ELSE path \o SEPARATOR

\* s3client.py:501-504  list_objects with the path as Prefix and the
\* separator as Delimiter: the branches below the path (CommonPrefixes) and
\* its objects (Contents)
CommonPrefixes(bucket, path) ==
    LET IsBranch(k) ==
            \E name \in DOMAIN bucket :
                StartsWith(name, MkAwsPath(path) \o k \o SEPARATOR)
    IN  SelectSeq(LeafOrder, IsBranch)
Contents(bucket, path) ==
    LET IsChild(k) == MkAwsPath(path) \o k \in DOMAIN bucket
    IN  SelectSeq(LeafOrder, IsChild)

\* s3client.py:506-509  reduce(lambda x, y: x + y, object_list) over the
\* dict_values of two or more CommonPrefixes: TypeError
LsDirFails(bucket, path) == Len(CommonPrefixes(bucket, path)) >= 2

\* interfaces.py:975-987, 728-729  the names of the children of a path
LsDir(bucket, path) == CommonPrefixes(bucket, path) \o Contents(bucket, path)

CaughtAlways(error) == error # "none"

\* interfaces.py:743-747  try: download_raw_array(path) except KeyError
Caught(error) == error = "KeyError"

NoDict(error) == [error |-> error, value |-> PyNone]

\* interfaces.py:720-755  cloud2dict over the names in subdirs: the dict it
\* returns (None when subdirs is empty), or the error that ends it
RECURSIVE Cloud2Dict(_, _, _)
Cloud2Dict(bucket, object_root, subdirs) ==
    IF Len(subdirs) = 0 THEN NoDict("none")
    ELSE
    LET Entry(subdir) ==
            LET path == PathJoin(object_root, subdir)
            IN  IF path \in DOMAIN bucket
                THEN LET r == DownloadRawArray(bucket, path)
                     IN  IF Caught(r.error) THEN NoDict("none")
                         ELSE IF r.error # "none" THEN NoDict(r.error)
                         ELSE [error |-> "none",
                               value |-> [t |-> "ndarray", v |-> r.array]]
                ELSE IF LsDirFails(bucket, path) THEN NoDict("TypeError")
                ELSE Cloud2Dict(bucket, path, LsDir(bucket, path))
        got == [i \in 1..Len(subdirs) |-> Entry(subdirs[i])]
    IN  IF \E i \in 1..Len(subdirs) : got[i].error # "none"
        THEN NoDict(got[CHOOSE i \in 1..Len(subdirs) :
                          /\ got[i].error # "none"
                          /\ \A j \in 1..(i - 1) : got[j].error = "none"].error)
        ELSE [error |-> "none",
              value |-> [t |-> "dict",
                         v |-> [k \in {subdirs[i] : i \in 1..Len(subdirs)} |->
                                  got[CHOOSE i \in 1..Len(subdirs) :
                                        subdirs[i] = k].value]]]

\* The uploads that make the branch, and the keys asked of cloud2dict
\* (None: everything listed under the branch).
BranchDaskInputs ==
    {[arr |-> ArrayOf(<<2, 2>>, Dtype("|", "V", 2 * MB), "C", "range"),
      axis |-> <<-1>>, buffersize |-> 4 * MB],
     [arr |-> ArrayOf(<<2, 3>>, Dtype("<", "i", 2), "F", "range"),
      axis |-> <<-1>>, buffersize |-> DASK_CHUNKSIZE]}
BranchSparseInputs ==
    {SparseMatrix(family, {<<0, 0, 1>>, <<0, 2, 2>>, <<1, 1, 3>>}, <<2, 3>>) :
        family \in {"csr", "coo"}}
BranchKeys ==
    {[t |-> "NoneType", v |-> <<>>],
     [t |-> "list", v |-> <<"data">>],
     [t |-> "list", v |-> <<"data", "indices", "indptr">>],
     [t |-> "list", v |-> <<"pt0000", "pt0001">>],
     [t |-> "list", v |-> <<"gone", "pt0000">>]}
UnknownCodec == "Nope"

\* interfaces.py:776,802-808  upload_dask_array of one of those arrays
BranchDaskCall ==
    /\ dask.pc = "idle"
    /\ sparse.pc = "idle"
    /\ \E in \in BranchDaskInputs :
          /\ dask' = [pc |-> "loop", uploads |-> dask.uploads + 1,
                      object_name |-> "test", arr |-> in.arr,
                      metadata |-> [dask |-> <<>>, chunk_sizes |-> <<>>],
                      manifest_written |-> FALSE, error |-> "none"]
          /\ gen' = [GenIdle EXCEPT !.pc = "called", !.shape = in.arr.shape,
                                    !.itemsize = in.arr.dtype.itemsize,
                                    !.axis = in.axis,
                                    !.buffersize = in.buffersize, !.u = MB]
    /\ UNCHANGED <<store, reader, notDask>>

\* interfaces.py:870-899  upload_sparse_array of one of those matrices
BranchSparseCall ==
    /\ sparse.pc = "idle"
    /\ dask.pc = "idle"
    /\ \E arr \in BranchSparseInputs :
          sparse' = [sparse EXCEPT !.pc = "parts", !.uploads = @ + 1,
                                   !.object_name = "test", !.input = arr,
                                   !.arr = SparseStored(arr),
                                   !.arrtype = SparseStored(arr).family,
                                   !.attrs = SparseAttrs(arr.family),
                                   !.k = 0, !.error = "none"]
    /\ UNCHANGED <<store, notSparse>>

\* The branch is whole and nothing was downloaded from it yet.
BranchStored == dask.pc = "done" \/ sparse.pc = "done"
NothingRead ==
    /\ reader.pc = "idle"
    /\ sparse.down_pc = "idle"
    /\ raw.pc = "idle"
    /\ branch.pc = "idle"

\* interfaces.py:1264-1300  rm of one object of the branch
BranchRemove ==
    /\ BranchStored /\ NothingRead /\ ~branch.damaged
    /\ \E name \in DOMAIN store :
          store' = [n \in DOMAIN store \ {name} |-> store[n]]
    /\ branch' = [branch EXCEPT !.damaged = TRUE]
    /\ UNCHANGED notBranch

\* interfaces.py:302-308  upload_object over one array of the branch: the
\* same body without shape or dtype, or under a codec that is not installed
BranchOverwrite ==
    /\ BranchStored /\ NothingRead /\ ~branch.damaged
    /\ \E name \in DOMAIN store \ {ManifestName("test")},
          change \in {"shape", "dtype", "compression"} :
          LET md == store[name].metadata
              metadata ==
                  IF change = "compression"
                  THEN [md EXCEPT !.compression = UnknownCodec]
                  ELSE [k \in DOMAIN md \ {change} |-> md[k]]
              r == UploadObject(store[name].body, DEFAULT_ACL, metadata)
          IN  store' = (name :> r.object) @@ store
    /\ branch' = [branch EXCEPT !.damaged = TRUE]
    /\ UNCHANGED notBranch

\* interfaces.py:837-867  download_dask_array of the branch, computed
BranchDaskDownload ==
    /\ BranchStored /\ NothingRead
    /\ sparse.pc = "idle"
    /\ DaskDownload

\* interfaces.py:910-949  download_sparse_array of the branch
BranchSparseDownload ==
    /\ BranchStored /\ NothingRead
    /\ dask.pc = "idle"
    /\ SparseDownload

\* interfaces.py:626-675  download_raw_array of one name under the branch
BranchRawDownload ==
    /\ BranchStored /\ NothingRead
    /\ \E i \in 1..Len(LeafOrder) :
          LET object_name == PathJoin("test", LeafOrder[i])
              r == DownloadRawArray(store, object_name)
          IN  raw' = [raw EXCEPT !.pc = "downloaded", !.down_name = object_name,
                                 !.result = r.array, !.down_error = r.error]
    /\ UNCHANGED <<store, notRaw>>

\* interfaces.py:704-755  cloud2dict of the branch
BranchCloud2Dict ==
    /\ BranchStored /\ NothingRead
    /\ \E keys \in BranchKeys :
          LET subdirs == IF keys.t = "NoneType" THEN LsDir(store, "test")
                         ELSE keys.v
              r == IF keys.t = "NoneType" /\ LsDirFails(store, "test")
                   THEN NoDict("TypeError")
                   ELSE Cloud2Dict(store, "test", subdirs)
          IN  branch' = [branch EXCEPT !.pc = "read", !.keys = subdirs,
                                       !.value = r.value, !.error = r.error]
    /\ UNCHANGED <<store, notBranch>>

BranchInit == AllIdle
BranchNext ==
    \/ BranchDaskCall
    \/ DaskPlanFails
    \/ DaskUploadPart
    \/ DaskUploadManifest
    \/ BranchSparseCall
    \/ SparseUploadPart
    \/ SparseUploadManifest
    \/ BranchRemove
    \/ BranchOverwrite
    \/ BranchDaskDownload
    \/ BranchSparseDownload
    \/ BranchRawDownload
    \/ BranchCloud2Dict
SpecBranch == BranchInit /\ [][BranchNext]_vars

(***************************************************************************)
(*        upload_object of the interface classes (interfaces.py)           *)
(***************************************************************************)
\* Encryption.py:12-13 and the AES block
DEFAULT_CHUNK_SIZE == 65536
FILE_LENGTH_FIELD_SIZE == 8
AES_BLOCK == 16

\* Encryption.py:294-303  the length of the chunk that ends the loop, and the
\* padding put after it
FinalChunk(input_size) ==
    IF (input_size % DEFAULT_CHUNK_SIZE) % AES_BLOCK = 0 THEN 0
    ELSE input_size % DEFAULT_CHUNK_SIZE
PadSize(input_size) ==
    AES_BLOCK - ((FinalChunk(input_size) + FILE_LENGTH_FIELD_SIZE) % AES_BLOCK)

\* A cipher stand-in: byte by byte, no byte left as it was.
Cipher(run) == [run EXCEPT !.v = (@ + 113) % 256]

\* Encryption.py:254-309  encrypt_stream: the initialisation vector, then
\* the data, the padding and the length field, encrypted
EncryptStream(body) ==
    <<[v |-> 0, n |-> AES_BLOCK]>>
        \o [i \in 1..Len(body) |-> Cipher(body[i])]
        \o <<Cipher([v |-> 32, n |-> PadSize(SizeOf(body))]),
             Cipher([v |-> SizeOf(body) % 256, n |-> FILE_LENGTH_FIELD_SIZE])>>

\* interfaces.py:1390-1398  EncryptedInterface.upload_object.  Under Python 3
\* the chunk read is bytes and the padding ' ' * padSize a str
\* (Encryption.py:300-301): TypeError.
EncryptedUploadObject(encryption, python, body, acl, metadata) ==
    IF python = 3 THEN [error |-> "TypeError", object |-> NoObject]
    ELSE [error |-> "none",
          object |-> [body |-> EncryptStream(body),
                      metadata |-> IF encryption = "AES" THEN metadata
                                   ELSE [key |-> "b64"] @@ metadata,
                      acl |-> acl, via |-> "put"]]

\* The bodies, ACLs and names of the calls.
Zeros(n) == IF n = 0 THEN <<>> ELSE <<[v |-> 0, n |-> n]>>
PutBodies ==
    {Zeros(n) : n \in {0, 5, 16, MPU_THRESHOLD(MB) - 1, MPU_THRESHOLD(MB),
                       MPU_THRESHOLD(MB) + 1, 2 * MPU_THRESHOLD(MB)}}
PutAcls == {"authenticated-read", "private", "public-read"}

\* interfaces.py:302-308  BasicInterface.upload_object
PutObject ==
    /\ putcall.pc = "idle"
    /\ \E object_name \in ObjectNames, body \in PutBodies, acl \in PutAcls :
          LET r == UploadObject(body, acl, <<>>)
          IN  /\ putcall' = [pc |-> "done", interface |-> "DefaultInterface",
                         python |-> 3, object_name |-> object_name,
                         body |-> body, acl |-> acl,
                         route |-> r.object.via, error |-> r.error]
              /\ store' = IF r.error = "none"
                          THEN (object_name :> r.object) @@ store ELSE store
    /\ UNCHANGED notPut

\* interfaces.py:1390-1398  EncryptedInterface.upload_object
PutEncrypted ==
    /\ putcall.pc = "idle"
    /\ \E object_name \in ObjectNames, body \in PutBodies, acl \in PutAcls,
          encryption \in {"AES", "RSA"}, python \in {2, 3} :
          LET r == EncryptedUploadObject(encryption, python, body, acl, <<>>)
          IN  /\ putcall' = [pc |-> "done", interface |-> "EncryptedInterface",
                         python |-> python, object_name |-> object_name,
                         body |-> body, acl |-> acl,
                         route |-> r.object.via, error |-> r.error]
              /\ store' = IF r.error = "none"
                          THEN (object_name :> r.object) @@ store ELSE store
    /\ UNCHANGED notPut

PutInit == AllIdle
PutNext == PutObject \/ PutEncrypted
SpecPut == PutInit /\ [][PutNext]_vars

(***************************************************************************)
(*              dict2cloud and cloud2dict (interfaces.py:677-755)          *)
(***************************************************************************)
PyDict(f) == [t |-> "dict", v |-> f]
NdArray(array) == [t |-> "ndarray", v |-> array]
EmptyDict == PyDict(<<>>)

\* The keys of a dict in the order of LeafOrder.
KeysOf(array_dict) ==
    LET IsKey(k) == k \in DOMAIN array_dict.v
    IN  SelectSeq(LeafOrder, IsKey)

\* interfaces.py:677-702  dict2cloud: the bucket after it, and the error that
\* ended it; keys is what is left of array_dict.items()
RECURSIVE Dict2CloudItems(_, _, _, _, _)
Dict2CloudItems(bucket, object_name, array_dict, keys, acl) ==
    IF Len(keys) = 0 THEN [error |-> "none", bucket |-> bucket]
    ELSE
    LET k == Head(keys)
        v == array_dict.v[k]
        name == PathJoin(object_name, k)
        r == IF v.t = "dict"
             THEN Dict2CloudItems(bucket, name, v, KeysOf(v), acl)
             ELSE LET u == UploadRawArray(v.v, PyStr("gzip"), acl, <<>>)
                  IN  [error |-> u.error,
                       bucket |-> IF u.error = "none"
                                  THEN (name :> u.object) @@ bucket
                                  ELSE bucket]
    IN  IF r.error # "none" THEN r
        ELSE Dict2CloudItems(r.bucket, object_name, array_dict, Tail(keys), acl)

Dict2Cloud(bucket, object_name, array_dict, acl) ==
    Dict2CloudItems(bucket, object_name, array_dict, KeysOf(array_dict), acl)

\* The dictionaries uploaded.
DictArrays ==
    [a |-> ArrayOf(<<2, 3>>, Dtype("<", "i", 2), "F", "range"),
     b |-> ArrayOf(<<3>>, Dtype("|", "u", 1), "C", "range"),
     c |-> ArrayOf(<<>>, Dtype("<", "f", 4), "C", "range")]
DictInputs ==
    LET A == NdArray(DictArrays.a)
        B == NdArray(DictArrays.b)
        C == NdArray(DictArrays.c)
    IN  {EmptyDict,
         PyDict([a |-> A]),
         PyDict([a |-> A, b |-> B]),
         PyDict([a |-> C, data |-> B]),
         PyDict([a |-> PyDict([b |-> B])]),
         PyDict([a |-> PyDict([a |-> A, b |-> C]), b |-> B]),
         PyDict([a |-> PyDict([b |-> B]), b |-> PyDict([a |-> A])]),
         PyDict([a |-> PyDict([b |-> PyDict([a |-> A])])]),
         PyDict([a |-> EmptyDict, b |-> B])}

\* interfaces.py:677-702  one dict2cloud call on an empty bucket
Dict2CloudCall ==
    /\ branch.up_pc = "idle"
    /\ \E object_name \in ObjectNames, array_dict \in DictInputs, acl \in PutAcls :
          LET r == Dict2Cloud(store, object_name, array_dict, acl)
          IN  /\ store' = r.bucket
              /\ branch' = [branch EXCEPT !.up_pc = "uploaded",
                                          !.object_name = object_name,
                                          !.array_dict = array_dict,
                                          !.up_error = r.error]
    /\ UNCHANGED notBranch

\* interfaces.py:704-755  cloud2dict of that name, or of some of its keys
Cloud2DictCall ==
    /\ branch.up_pc = "uploaded"
    /\ branch.pc = "idle"
    /\ \E keys \in {[t |-> "NoneType", v |-> <<>>], [t |-> "list", v |-> <<"a">>],
                    [t |-> "list", v |-> <<"b", "a">>]} :
          LET subdirs == IF keys.t = "NoneType"
                         THEN LsDir(store, branch.object_name) ELSE keys.v
              r == IF keys.t = "NoneType" /\ LsDirFails(store, branch.object_name)
                   THEN NoDict("TypeError")
                   ELSE Cloud2Dict(store, branch.object_name, subdirs)
          IN  branch' = [branch EXCEPT !.pc = IF keys.t = "NoneType"
                                              THEN "read" ELSE "read keys",
                                       !.keys = subdirs,
                                       !.value = r.value, !.error = r.error]
    /\ UNCHANGED <<store, notBranch>>

DictInit == AllIdle
DictNext == Dict2CloudCall \/ Cloud2DictCall
SpecDict == DictInit /\ [][DictNext]_vars

(***************************************************************************)
(*            rm of the file-system interface (interfaces.py)              *)
(***************************************************************************)
\* interfaces.py:1128-1150  glob_s3 of a pattern without magic: the names of
\* the objects the store lists for Prefix = pattern
GlobS3(bucket, pattern) == {name \in DOMAIN bucket : StartsWith(name, pattern)}

\* The bucket without these objects.
Without(bucket, names) == [n \in DOMAIN bucket \ names |-> bucket[n]]

\* interfaces.py:1264-1309  rm: the bucket after it, and the error that
\* ended it
Rm(bucket, object_name, recursive) ==
    IF object_name \in DOMAIN bucket
    THEN [error |-> "none", bucket |-> Without(bucket, {object_name})]
    ELSE IF LsDirFails(bucket, object_name)
    THEN [error |-> "TypeError", bucket |-> bucket]
    ELSE IF Len(LsDir(bucket, object_name)) > 0 /\ recursive
    THEN [error |-> "none",
          bucket |-> Without(bucket, GlobS3(bucket, object_name))]
    ELSE [error |-> "none", bucket |-> bucket]

\* The names of the objects in the bucket and of the rm calls.
RmObjects ==
    {"test/a", "test/b", "test/col/a", "test/data/a", "test2/a", "other/a"}
RmNames == {"test", "test/a", "test/col", "test2", "gone"}

\* interfaces.py:302-308  upload_object of one more object
RmUpload ==
    /\ fs.pc = "idle"
    /\ \E name \in RmObjects \ DOMAIN store :
          store' = (name :> UploadObject(Zeros(5), DEFAULT_ACL, <<>>).object)
                       @@ store
    /\ UNCHANGED <<fs, notFs>>

\* interfaces.py:1264-1309  one rm call
RmCall ==
    /\ fs.pc = "idle"
    /\ \E object_name \in RmNames, recursive \in BOOLEAN :
          LET r == Rm(store, object_name, recursive)
          IN  /\ store' = r.bucket
              /\ fs' = [pc |-> "done", object_name |-> object_name,
                        recursive |-> recursive, before |-> store,
                        error |-> r.error]
    /\ UNCHANGED notFs

RmInit == AllIdle
RmNext == RmUpload \/ RmCall
SpecRm == RmInit /\ [][RmNext]_vars

(***************************************************************************)
(* GzipInputStream (utils.py:468-542).  The decompressed stream is the     *)
(* bytes numbered 1, 2, ...; the compressed file is a sequence that tells, *)
(* for each of its bytes, how many decompressed bytes zlib puts out once   *)
(* it has been fed that byte, and tail is what is left for flush().        *)
(***************************************************************************)
MaxGzFile == 2

GzFiles ==
    UNION {[1..n -> 0..2] : n \in 1..MaxGzFile}
GzBlockSizes == {1, 2}
GzReadSizes == {-1, 0, 1, 2, 3}
GzSeekOffsets == {-1, 0, 1, 3, 2 * MaxGzFile + 2}
GzWhences == {0, 1, 2}

\* The length of the decompressed stream.
GzTotal(z) == Sum(z.file) + z.tail

\* zlib: what decompress() returns for the n bytes of the file after pos
Decompress(z, n) ==
    [i \in 1..Sum(SubSeq(z.file, z.pos + 1, z.pos + n)) |->
        Sum(SubSeq(z.file, 1, z.pos)) + i]

\* zlib: what flush() returns once the whole file was fed
Flush(z) == [i \in 1..z.tail |-> Sum(z.file) + i]

\* Python slices s[:n] and s[n:], n of either sign
SliceTo(s, n) ==
    IF n >= 0 THEN SubSeq(s, 1, Min(n, Len(s)))
    ELSE SubSeq(s, 1, Max(Len(s) + n, 0))
SliceFrom(s, n) ==
    IF n >= 0 THEN SubSeq(s, Min(n, Len(s)) + 1, Len(s))
    ELSE SubSeq(s, Max(Len(s) + n, 0) + 1, Len(s))

\* utils.py:493-510  __fill: read blocks of the file until the buffer has
\* num_bytes bytes (0: until the end of the file)
RECURSIVE Fill(_, _)
Fill(z, num_bytes) ==
    IF ~z.zip THEN z
    ELSE IF ~(num_bytes = 0 \/ Len(z.data) < num_bytes) THEN z
    ELSE LET n == Min(z.BLOCK_SIZE, Len(z.file) - z.pos)
         IN  IF n = 0
             THEN [z EXCEPT !.data = @ \o Flush(z), !.zip = FALSE]
             ELSE Fill([z EXCEPT !.data = @ \o Decompress(z, n),
                                 !.pos = @ + n], num_bytes)

\* The offset moved by the size asked for.
ReadAddsSize(z, size) ==
    LET f == Fill(z, size)
        data == IF size # 0 THEN SliceTo(f.data, size) ELSE f.data
    IN  [stream |-> [f EXCEPT !.data = IF size # 0 THEN SliceFrom(f.data, size)
                                       ELSE <<>>,
                              !.offset = @ + Max(size, 0),
                              !.returned = @ + Len(data)],
         data |-> data]

\* utils.py:533-542  read: the stream after it and the bytes it returns;
\* returned counts the bytes that read has returned
Read(z, size) ==
    LET f == Fill(z, size)
        data == IF size # 0 THEN SliceTo(f.data, size) ELSE f.data
    IN  [stream |-> [f EXCEPT !.data = IF size # 0 THEN SliceFrom(f.data, size)
                                       ELSE <<>>,
                              !.offset = @ + Len(data),
                              !.returned = @ + Len(data)],
         data |-> data]

\* utils.py:478-491  __init__
GzOpen ==
    /\ gzstream.pc = "closed"
    /\ \E file \in GzFiles, tail \in 0..1, block_size \in GzBlockSizes :
          gzstream' = [GzIdle EXCEPT !.pc = "ready", !.file = file,
                                     !.tail = tail, !.BLOCK_SIZE = block_size,
                                     !.zip = TRUE]
    /\ UNCHANGED notGz

\* utils.py:533-542  one read call
GzRead ==
    /\ gzstream.pc = "ready"
    /\ \E size \in GzReadSizes :
          LET r == Read(gzstream, size)
          IN  gzstream' = [r.stream EXCEPT !.op = "read", !.arg = size,
                                           !.whence = 0, !.position = 0,
                                           !.result = r.data, !.told = 0,
                                           !.error = "none"]
    /\ UNCHANGED notGz

\* utils.py:515-523  seek, up to its loop
GzSeek ==
    /\ gzstream.pc = "ready"
    /\ \E offset \in GzSeekOffsets, whence \in GzWhences :
          LET position == IF whence = 0 THEN offset ELSE gzstream.offset + offset
              called == [gzstream EXCEPT !.op = "seek", !.arg = offset,
                                         !.whence = whence, !.position = 0,
                                         !.result = <<>>, !.told = 0]
          IN  IF whence \notin {0, 1} \/ position < gzstream.offset
              THEN gzstream' = [called EXCEPT !.error = "IOError"]
              ELSE gzstream' = [called EXCEPT !.pc = "seeking",
                                              !.position = position,
                                              !.error = "none"]
    /\ UNCHANGED notGz

\* utils.py:526-528  one pass of the loop of seek, or its end
GzSeekStep ==
    /\ gzstream.pc = "seeking"
    /\ IF gzstream.position > gzstream.offset
       THEN LET r == Read(gzstream, Min(gzstream.position - gzstream.offset,
                                        gzstream.BLOCK_SIZE))
            IN  gzstream' = [r.stream EXCEPT
                                !.pc = IF r.data = <<>> THEN "ready" ELSE @]
       ELSE gzstream' = [gzstream EXCEPT !.pc = "ready"]
    /\ UNCHANGED notGz

\* utils.py:530-531  tell
GzTell ==
    /\ gzstream.pc = "ready"
    /\ gzstream' = [gzstream EXCEPT !.op = "tell", !.arg = 0, !.whence = 0,
                                    !.position = 0, !.result = <<>>,
                                    !.told = gzstream.offset,
                                    !.error = "none"]
    /\ UNCHANGED notGz

GzInit == AllIdle
GzNext ==
    \/ GzOpen
    \/ GzRead
    \/ GzSeek
    \/ GzSeekStep
    \/ GzTell
\* A seek call runs its loop on: nothing else runs between two passes.
SpecGzip == GzInit /\ [][GzNext]_vars /\ WF_vars(GzSeekStep)

(***************************************************************************)
(*                 Properties of S3Client.upload_multipart                 *)
(***************************************************************************)
PartCalls == SelectSeq(s3.calls, LAMBDA c : c.op = "upload_part")
CompleteCalls == SelectSeq(s3.calls, LAMBDA c : c.op = "complete_multipart_upload")
AbortCalls == SelectSeq(s3.calls, LAMBDA c : c.op = "abort_multipart_upload")

\* C4: the parts are uploaded one at a time with part numbers 1, 2, ... in
\* this order, every tag the store returned is recorded with its part
\* number, at most one completion call is made, it is the last call, it is
\* made only when all nparts parts are acknowledged and it lists the
\* (part number, tag) pairs of parts 1..nparts in increasing order; a call
\* that failed (a part upload raised or returned no tag) made no completion
\* call.
C4_OrderedPartsThenComplete ==
    /\ \A i \in 1..Len(PartCalls) : PartCalls[i].PartNumber = i
    /\ Len(PartCalls) <= mpu.nparts
    /\ Len(mpu.Parts) = Len(s3.parts)
    /\ \A i \in 1..Len(mpu.Parts) :
          /\ s3.parts[i].PartNumber = i
          /\ mpu.Parts[i] = [PartNumber |-> i, ETag |-> s3.parts[i].ETag]
    /\ Len(CompleteCalls) <= 1
    /\ Len(CompleteCalls) = 1 =>
          /\ s3.calls[Len(s3.calls)].op = "complete_multipart_upload"
          /\ Len(s3.parts) = mpu.nparts
          /\ Len(PartCalls) = mpu.nparts
          /\ CompleteCalls[1].Parts =
                [i \in 1..mpu.nparts |->
                    [PartNumber |-> i, ETag |-> s3.parts[i].ETag]]
    /\ mpu.pc = "failed" => Len(CompleteCalls) = 0
    /\ mpu.pc = "done" => Len(CompleteCalls) = 1

\* C4 witness: a call that uploaded several parts and completed.
C4_Witness ==
    /\ mpu.pc = "done"
    /\ mpu.nparts >= 2
    /\ Len(CompleteCalls) = 1

\* C5 (as claimed): a call that created a session and then failed issued an
\* abort call for it, so a session of a finished call is completed or aborted.
C5_FailedSessionAborted ==
    /\ (mpu.pc = "failed" /\ s3.session # "none") =>
          (Len(AbortCalls) >= 1 /\ s3.session = "aborted")
    /\ mpu.pc \in {"done", "failed"} => s3.session \in {"completed", "aborted"}

\* C6 (as claimed): every part sent has MIN_MPU_SIZE <= size <= MAX_PUT_SIZE,
\* and then nparts < MAX_MPU_PARTS and the payload is below MAX_MPU_SIZE.
C6_PartLimits ==
    \A i \in 1..Len(PartCalls) :
        /\ MIN_MPU_SIZE(1) <= PartCalls[i].len
        /\ PartCalls[i].len <= MAX_PUT_SIZE(1)
        /\ mpu.nparts < MAX_MPU_PARTS
        /\ BelowMaxMpuSize(mpu.nbytes_total, 1)

\* The three limits of C6 that the asserts do enforce.
C6_EnforcedLimits ==
    \A i \in 1..Len(PartCalls) :
        /\ MIN_MPU_SIZE(1) <= PartCalls[i].len
        /\ mpu.nparts < MAX_MPU_PARTS
        /\ BelowMaxMpuSize(mpu.nbytes_total, 1)

(***************************************************************************)
(*                  Properties of generate_ndarray_chunks                  *)
(***************************************************************************)
Yielded == {gen.yielded[i] : i \in 1..Len(gen.yielded)}

\* The indices of dimension d that a yielded chunk holds.
ChunkRange(ch, d) ==
    SliceStart(ch.beg[d], gen.shape[d]) ..
        (SliceStop(ch.beg[d], ch.end[d], gen.shape[d]) - 1)

ChunkIsEmpty(ch) == \E d \in 1..Len(gen.shape) : ChunkRange(ch, d) = {}

\* ch2 is the chunk after ch1 along dimension d, the other coordinates equal.
NextAlong(ch1, ch2, d) ==
    /\ ch2.coords[d] = ch1.coords[d] + 1
    /\ \A e \in 1..Len(gen.shape) : e # d => ch2.coords[e] = ch1.coords[e]

\* The chunks of the line through ch along dimension d.
LineOf(ch, d) ==
    {o \in Yielded : \A e \in 1..Len(gen.shape) : e # d => o.coords[e] = ch.coords[e]}

RECURSIVE SumOfExtents(_, _)
SumOfExtents(chunks, d) ==
    IF chunks = {} THEN 0
    ELSE LET ch == CHOOSE c \in chunks : TRUE
         IN  Cardinality(ChunkRange(ch, d)) + SumOfExtents(chunks \ {ch}, d)

\* C3: once the generator is exhausted the chunks it yielded tile the array:
\* along every dimension, on every line of chunks with the other coordinates
\* fixed, the first chunk starts at index 0, each chunk starts where the one
\* before it stops, the extents add up to the dimension, and no two chunks
\* at distinct coordinates hold a common element.
C3_ChunksTileArray ==
    gen.pc = "done" =>
        /\ Len(gen.yielded) = Prod(gen.dim_nchunks)
        /\ \A i, j \in 1..Len(gen.yielded) :
              i # j => gen.yielded[i].coords # gen.yielded[j].coords
        /\ \A ch \in Yielded : \A d \in 1..Len(gen.shape) :
              /\ ch.coords[d] = 0 => SliceStart(ch.beg[d], gen.shape[d]) = 0
              /\ \A o \in Yielded :
                    NextAlong(ch, o, d) =>
                        SliceStart(o.beg[d], gen.shape[d])
                            = SliceStop(ch.beg[d], ch.end[d], gen.shape[d])
              /\ SumOfExtents(LineOf(ch, d), d) = gen.shape[d]
        /\ \A c1, c2 \in Yielded :
              c1.coords # c2.coords =>
                  \E d \in 1..Len(gen.shape) :
                      ChunkRange(c1, d) \cap ChunkRange(c2, d) = {}

\* A two-dimensional array was split into several non-empty chunks along
\* both dimensions and the generator is exhausted.
C3_Witness ==
    /\ gen.pc = "done"
    /\ Len(gen.shape) = 2
    /\ \E ch \in Yielded :
          /\ ~ChunkIsEmpty(ch)
          /\ ch.coords[1] >= 1
          /\ ch.coords[2] >= 1

(***************************************************************************)
(*          Properties of upload_raw_array and download_raw_array          *)
(***************************************************************************)
CodecFields == {"dtype", "shape", "compression", "order"}

\* upload_raw_array was called with this compression argument and with
\* extra metadata that names no codec field.
RawUploadCalled(compressions) ==
    /\ raw.pc # "idle"
    /\ raw.object_name # ""
    /\ raw.compression \in compressions
    /\ DOMAIN raw.metadata \cap CodecFields = {}

\* The upload succeeded, and a download of the same name that followed
\* returned an array equal to the uploaded one.
RawRoundTrip ==
    /\ raw.error = "none"
    /\ raw.pc = "downloaded" /\ raw.down_name = raw.object_name =>
          /\ raw.down_error = "none"
          /\ ArrayEqual(raw.result, raw.array)

RawArrayIsLarge ==
    NBytesExceeds(raw.array.shape, raw.array.dtype.itemsize, GzipLimit)

\* C1: for every numeric array, whatever its dtype, memory order and
\* contiguity, upload_raw_array with compression 'gzip' stores the array and
\* download_raw_array of the same name returns an array of the same shape,
\* dtype and element values.
C1_GzipRoundTrip ==
    RawUploadCalled({PyStr("gzip")}) => RawRoundTrip

\* The round trip of C1 for the arrays of less than 2^31 bytes.
RoundTripBelowGzipLimit ==
    RawUploadCalled({PyStr("gzip")}) /\ ~RawArrayIsLarge => RawRoundTrip

\* C9: upload_raw_array with compression None or False stores the raw bytes
\* of the array, uncompressed, and download_raw_array of that object returns
\* an array equal to the original.
C9_UncompressedRoundTrip ==
    RawUploadCalled({PyNone, PyFalse}) =>
        /\ RawRoundTrip
        /\ store[raw.object_name].body
              = MemoryBytes(ContiguousIn(raw.array, OrderOf(raw.array)))

\* C10: upload_raw_array called with 'gzip' on an array of at least 2^31
\* bytes goes on without compression: it stores the object with a
\* compression field that is not 'gzip' and a body that gzip did not write;
\* on a smaller array it stores the object with compression 'gzip'.
C10_GzipDowngraded ==
    RawUploadCalled({PyStr("gzip")}) =>
        /\ raw.error = "none"
        /\ raw.object_name \in DOMAIN store
        /\ IF RawArrayIsLarge
           THEN /\ store[raw.object_name].metadata.compression = "None"
                /\ ~IsGzip(store[raw.object_name].body)
           ELSE store[raw.object_name].metadata.compression = "gzip"

\* The part of C10 that needs no completed upload: no object stored for an
\* array of at least 2^31 bytes is gzip-compressed, and every object stored
\* for a smaller array uploaded with 'gzip' is.
GzipOnlyBelowLimit ==
    RawUploadCalled({PyStr("gzip")}) /\ raw.error = "none" =>
        /\ ~RawArrayIsLarge
        /\ store[raw.object_name].metadata.compression = "gzip"
        /\ IsGzip(store[raw.object_name].body)

(***************************************************************************)
(*        Properties of upload_dask_array and download_dask_array          *)
(***************************************************************************)
StoredManifest == store[ManifestName(dask.object_name)].body[1].v

\* The block of arr that the manifest's chunks put at these coordinates.
BlockOfArray(arr, chunks, coords) ==
    ChunkCopy(arr,
        [coords |-> coords,
         beg |-> [d \in 1..Len(coords) |-> BlockOffset(chunks[d], coords[d])],
         end |-> [d \in 1..Len(coords) |->
                    BlockOffset(chunks[d], coords[d]) + chunks[d][coords[d] + 1]]])

\* C2: once upload_dask_array has written an array, in isotropic or in
\* axis-confined planning, every chunk coordinate of the manifest names the
\* part that holds exactly that block of the array, and download_dask_array
\* (computed) gives an array of the original shape and values.
C2_DaskRoundTrip ==
    /\ dask.pc = "done" =>
          \A i \in 1..Len(ManifestParts(StoredManifest)) :
              LET entry == ManifestParts(StoredManifest)[i]
                  part == DownloadRawArray(store, entry[2])
              IN  /\ part.error = "none"
                  /\ ArrayEqual(part.array,
                                BlockOfArray(dask.arr,
                                             ManifestChunks(StoredManifest),
                                             entry[1]))
    /\ reader.pc = "read" /\ reader.during = "done" =>
          /\ reader.error = "none"
          /\ ArrayEqual(reader.array, reader.arr)

\* A column-major 2 x 2 array was cut isotropically into one-element blocks
\* (nine parts, five of them empty), and a reader then computed it.
C2_Witness ==
    /\ reader.pc = "read"
    /\ reader.during = "done"
    /\ reader.arr.shape = <<2, 2>>
    /\ reader.arr.layout = "F"
    /\ reader.arr = dask.arr
    /\ Len(dask.metadata.dask) = 9
    /\ reader.error = "none"

\* C7: the manifest of an upload_dask_array call is written after all its
\* parts: in every state, so for any concurrent reader, if this call's
\* manifest is in the store then the generator is exhausted and every part
\* the manifest lists is in the store; and until then a fresh name has no
\* manifest.
C7_ManifestLast ==
    /\ dask.manifest_written =>
          /\ ManifestName(dask.object_name) \in DOMAIN store
          /\ gen.pc = "done"
          /\ \A i \in 1..Len(ManifestParts(StoredManifest)) :
                ManifestParts(StoredManifest)[i][2] \in DOMAIN store
    /\ dask.uploads = 1 /\ ~dask.manifest_written =>
          ManifestName("test") \notin DOMAIN store

\* The manifest of an upload of three parts or more is in the store, and a
\* reader had looked while the parts were being uploaded.
C7_Witness ==
    /\ dask.manifest_written
    /\ dask.uploads = 1
    /\ Len(ManifestParts(StoredManifest)) >= 3
    /\ reader.pc = "read"
    /\ reader.during = "loop"
    /\ reader.error = "IOError"

(***************************************************************************)
(*      Properties of upload_sparse_array and download_sparse_array        *)
(***************************************************************************)
\* The stored elements a csr matrix holds, read off its constituent arrays.
CsrItems(m) ==
    {<<rk[1], m.parts.indices.values[rk[2]], m.parts.data.values[rk[2]]>> :
        rk \in {x \in (0..(m.shape[1] - 1)) \X (1..Len(m.parts.data.values)) :
                  /\ m.parts.indptr.values[x[1] + 1] < x[2]
                  /\ x[2] <= m.parts.indptr.values[x[1] + 2]}}

\* Whether the matrix got is the one put: for the exact families the same
\* family, shape and constituent arrays, for dok and lil the csr matrix with
\* the same stored elements.
SparseMatches(got, put) ==
    IF put.family \in ExactFamilies
    THEN /\ got.family = put.family
         /\ got.shape = put.shape
         /\ DOMAIN got.parts = DOMAIN put.parts
         /\ \A attr \in DOMAIN put.parts :
               ArrayEqual(got.parts[attr], put.parts[attr])
    ELSE /\ got.family = "csr"
         /\ got.shape = put.shape
         /\ CsrItems(got) = put.parts.items

\* A download_sparse_array call made after the upload_sparse_array call of
\* the matrix sparse.read_input had ended.
SparseReadAfterUpload ==
    sparse.down_pc = "read" /\ sparse.during \in {"done", "failed"}

SparseRoundTrip ==
    /\ sparse.down_error = "none"
    /\ SparseMatches(sparse.result, sparse.read_input)

\* Whether a constituent array of the matrix takes 2^31 bytes or more.
SparseIsLarge(m) ==
    \E attr \in DOMAIN m.parts \ {"items"} :
        NBytesExceeds(m.parts[attr].shape, m.parts[attr].dtype.itemsize,
                      GzipLimit)

\* C8: for every csr, csc, bsr, coo or dia matrix, download_sparse_array
\* after upload_sparse_array returns a matrix of the same family and shape
\* with the same constituent arrays, and for a dok or lil matrix the csr
\* matrix with the same stored elements.
C8_SparseRoundTrip == SparseReadAfterUpload => SparseRoundTrip

\* What holds: the round trip of every matrix whose constituent arrays are
\* all below 2^31 bytes.
SparseRoundTripBelowGzipLimit ==
    SparseReadAfterUpload /\ ~SparseIsLarge(sparse.read_input) => SparseRoundTrip

\* A coo matrix of three stored elements came back after its upload.
SparseRoundTripSeen ==
    /\ SparseReadAfterUpload
    /\ sparse.read_input.family = "coo"
    /\ sparse.read_input.shape = <<3, 2>>
    /\ sparse.result.family = "coo"
    /\ Len(sparse.result.parts.row.values) = 3

(***************************************************************************)
(*          Properties of the chunk plan of generate_ndarray_chunks        *)
(***************************************************************************)
\* The bytes of a yielded chunk: the product of its extents times itemsize.
ChunkBytes(ch) ==
    Prod([d \in 1..Len(gen.shape) |-> Cardinality(ChunkRange(ch, d))])
        * gen.itemsize

\* The generator has planned its chunks along one axis.
AxisConfined == gen.pc \in {"iter", "done"} /\ gen.axis # AxisNone

\* The number of chunk coordinates seen along dimension d.
CountAlong(d) == Cardinality({ch.coords[d] : ch \in Yielded})

\* C11: every yielded chunk takes at most buffersize bytes, and in
\* axis-confined planning the edge length along the axis times itemsize
\* times the product of the other dimensions is at most buffersize.
C11_ChunkWithinBuffersize ==
    /\ \A ch \in Yielded : ChunkBytes(ch) <= gen.buffersize
    /\ AxisConfined =>
          gen.ii * gen.itemsize * Prod(OtherDims(gen.shape, gen.axis))
              <= gen.buffersize

\* C12: in axis-confined planning the exhausted generator has yielded
\* exactly ceil(dim_size / edge_length) chunks along the axis and exactly
\* one chunk, spanning the whole dimension, along every other dimension.
C12_AxisChunkCount ==
    AxisConfined /\ gen.pc = "done" =>
        \A d \in 1..Len(gen.shape) :
            IF <<d>> = gen.axis
            THEN CountAlong(d) = CeilDiv(gen.shape[d], gen.ii)
            ELSE /\ CountAlong(d) = 1
                 /\ \A ch \in Yielded :
                       ChunkRange(ch, d) = 0..(gen.shape[d] - 1)

\* The call was let through by the asserts and has ended: the generator is
\* exhausted or the plan raised.
GenEnded ==
    \/ gen.pc = "done"
    \/ gen.pc = "failed" /\ gen.error # "AssertionError"

\* C19: for an array with a zero-size dimension the generator yields exactly
\* one chunk, and that chunk is empty.
C19_ZeroSizeOneEmptyChunk ==
    GenEnded /\ (\E d \in 1..Len(gen.shape) : gen.shape[d] = 0) =>
        /\ Len(gen.yielded) = 1
        /\ ChunkIsEmpty(gen.yielded[1])

\* C20: shape (1000, 1000), itemsize 8, along axis 1, with buffersize 5 MB:
\* the edge length along axis 1 is 640 and there are exactly 2 chunks along
\* axis 1, both spanning all 1000 rows.
C20_Example ==
    /\ gen.pc = "done"
    /\ gen.shape = <<1000, 1000>>
    /\ gen.itemsize = 8
    /\ gen.axis = <<2>>
    /\ gen.buffersize = 5 * MB
    => /\ gen.ii = 640
       /\ CountAlong(2) = 2
       /\ \A ch \in Yielded : ChunkRange(ch, 1) = 0..999

\* C13: a configuration whose plan has more chunks than MAX_MPU_PARTS, or
\* whose buffersize is below MIN_MPU_SIZE, is rejected before any chunk is
\* yielded: the generator never gets to its loop with such a plan.
C13_RejectsBeforeYielding ==
    gen.pc \in {"iter", "done"} =>
        /\ Prod(gen.dim_nchunks) <= MAX_MPU_PARTS
        /\ gen.buffersize >= MIN_MPU_SIZE(gen.u)

\* What holds: a buffersize below MIN_MPU_SIZE, and a byte count of
\* MAX_MPU_PARTS buffersizes or more, are rejected before any chunk.
RejectsByByteCount ==
    gen.pc \in {"iter", "done"} =>
        /\ CeilDiv(NBytes(gen.shape, gen.itemsize), gen.buffersize) < MAX_MPU_PARTS
        /\ gen.buffersize >= MIN_MPU_SIZE(gen.u)

(***************************************************************************)
(*        Properties of the part size of S3Client.upload_multipart         *)
(***************************************************************************)
\* The step in which upload_multipart sizes its parts, for a payload below
\* the part size asked for: the part size is then derived from the payload.
DerivesPartSize ==
    /\ mpu.pc = "created"
    /\ mpu'.pc # "created"
    /\ mpu.nbytes_total < mpu.buffersize

\* C14 as stated: the derived part size is 2 x MIN_MPU_SIZE if the payload
\* is below 10 x MIN_MPU_SIZE, and MIN_MPU_SIZE otherwise.
C14_DerivedPartSizeAsStated ==
    [][DerivesPartSize =>
          mpu'.buffersize = IF mpu.nbytes_total < 10 * MIN_MPU_SIZE(1)
                            THEN 2 * MIN_MPU_SIZE(1)
                            ELSE MIN_MPU_SIZE(1)]_vars

\* C14, amended: the derived part size is 2 x MIN_MPU_SIZE if the payload
\* is above 10 x MIN_MPU_SIZE, and MIN_MPU_SIZE otherwise.
C14_DerivedPartSize ==
    [][DerivesPartSize =>
          mpu'.buffersize = IF mpu.nbytes_total > 10 * MIN_MPU_SIZE(1)
                            THEN 2 * MIN_MPU_SIZE(1)
                            ELSE MIN_MPU_SIZE(1)]_vars

\* A payload of 60 MB, asked to go in parts of 100 MB, goes in parts of
\* 10 MB, and one of them has been sent.
C14_Witness ==
    /\ mpu.pc = "parts"
    /\ mpu.nbytes_total = 60
    /\ mpu.buffersize = 2 * MIN_MPU_SIZE(1)
    /\ mpu.nparts = 6
    /\ mpu.chunk_idx = 1

(***************************************************************************)
(*      Properties of download_raw_array on objects of other writers       *)
(***************************************************************************)
\* download_raw_array was called on an object that is in the store.
DownloadedStored == raw.pc = "downloaded" /\ raw.down_name \in DOMAIN store
DownloadedMetadata == store[raw.down_name].metadata

WithDefaults(md) ==
    [k \in DOMAIN md \cup {"order", "compression"} |->
        IF k \in DOMAIN md THEN md[k]
        ELSE IF k = "order" THEN "C" ELSE "None"]

IsDecodable(object) ==
    /\ ~LacksAnyField(object.metadata)
    /\ IsShapeStr(object.metadata.shape)
    /\ object.metadata.compression \in StoredCompressions
    /\ object.metadata.compression = "gzip" => IsGzip(object.body)
    /\ object.metadata.compression = "Zstd" => IsCodecFrame(object.body)
ExpectedRuns(object) ==
    LET shape == ParseShape(object.metadata.shape)
        dtype == NpDtype(object.metadata.dtype)
    IN  Size(GridShape(shape)) * ItemRuns(EntryBytes(shape, dtype))
DecodedRuns(object) == Len(Datastream(object.metadata, object.body))

\* C16: download_raw_array ends with an error whenever the decoded payload
\* is shorter or longer than product(shape) x itemsize.
C16_LengthMismatchFails ==
    /\ DownloadedStored
    /\ IsDecodable(store[raw.down_name])
    /\ DecodedRuns(store[raw.down_name]) # ExpectedRuns(store[raw.down_name])
    => raw.down_error # "none"

\* What holds: a payload that is too short ends the call with an error.
ShortPayloadFails ==
    /\ DownloadedStored
    /\ IsDecodable(store[raw.down_name])
    /\ DecodedRuns(store[raw.down_name]) < ExpectedRuns(store[raw.down_name])
    => raw.down_error = "ValueError"

(***************************************************************************)
(*        Properties of download_sparse_array on foreign manifests         *)
(***************************************************************************)
\* The type tag of the manifest stored under "test".
StoredType ==
    Member(store[ManifestName("test")].body[1].v, "type").v

\* A download_sparse_array call that finds a manifest whose type tag is none
\* of the five families.
ReadsForeignType ==
    /\ sparse.down_pc = "idle"
    /\ sparse'.down_pc = "read"
    /\ ManifestName("test") \in DOMAIN store
    /\ StoredType \notin {"csr", "csc", "bsr", "coo", "dia"}

\* C17: download_sparse_array on a manifest whose type tag is not one of
\* csr, csc, bsr, coo, dia ends in an error and returns no matrix.
C17_UnknownTypeFails ==
    [][ReadsForeignType =>
          /\ sparse'.down_error # "none"
          /\ sparse'.result = NoMatrix]_vars

\* A download of a retagged manifest, all parts read, ended at the return
\* of the unbound arr.
C17_Witness ==
    /\ sparse.down_pc = "read"
    /\ sparse.during = "retagged"
    /\ sparse.down_error = "UnboundLocalError"
    /\ sparse.result = NoMatrix

(***************************************************************************)
(*          Properties of the downloads: what becomes of an error          *)
(***************************************************************************)
\* The errors download_raw_array ends with on these names of the store.
FetchErrors(names) ==
    {DownloadRawArray(store, n).error : n \in names} \ {"none"}

\* download_raw_array: an absent object, a missing shape or dtype and a
\* codec that is not installed each end the call with their error and no
\* array.
RawErrorsPropagate ==
    raw.pc = "downloaded" =>
        LET name == raw.down_name
            failed(error) == raw.down_error = error /\ raw.result = NoArray
        IN  /\ name \notin DOMAIN store => failed("FileNotFoundError")
            /\ name \in DOMAIN store =>
                  LET md == store[name].metadata
                  IN  /\ {"shape", "dtype"} \ DOMAIN md # {} => failed("KeyError")
                      /\ /\ {"shape", "dtype", "compression"} \subseteq DOMAIN md
                         /\ md.compression = UnknownCodec
                         => failed("ImportError")

\* The parts download_dask_array's graph names for the blocks of the array.
DaskFetched ==
    LET doc == store[ManifestName("test")].body[1].v
        chunks == ManifestChunks(doc)
        nblocks == [d \in 1..Len(chunks) |-> Len(chunks[d])]
    IN  {GraphPart(ManifestParts(doc), ProductTuple(k, nblocks)) :
            k \in 0..(Prod(nblocks) - 1)}

\* download_dask_array and the computation of its array: an absent manifest
\* and a failed part end it with that error and no array.
DaskErrorsPropagate ==
    reader.pc = "read" =>
        IF ManifestName("test") \notin DOMAIN store
        THEN reader.error = "IOError" /\ reader.array = NoArray
        ELSE FetchErrors(DaskFetched) # {} =>
                /\ reader.error \in FetchErrors(DaskFetched)
                /\ reader.array = NoArray

\* The parts download_sparse_array fetches: the attrs of the manifest.
SparseFetched ==
    LET attrs == Member(store[ManifestName("test")].body[1].v, "attrs").v
    IN  {PathJoin("test", attrs[i].v) : i \in 1..Len(attrs)}

\* download_sparse_array: an absent manifest and a failed part end it with
\* that error and no matrix.
SparseErrorsPropagate ==
    sparse.down_pc = "read" =>
        IF ManifestName("test") \notin DOMAIN store
        THEN sparse.down_error = "IOError" /\ sparse.result = NoMatrix
        ELSE FetchErrors(SparseFetched) # {} =>
                /\ sparse.down_error \in FetchErrors(SparseFetched)
                /\ sparse.result = NoMatrix

\* The objects cloud2dict downloads for its keys.
DictFetched ==
    {PathJoin("test", branch.keys[i]) : i \in 1..Len(branch.keys)}
        \cap DOMAIN store

C21_RouteBySize ==
    putcall.pc = "done" =>
        putcall.route = IF SizeExceeds(putcall.body, MPU_THRESHOLD(MB))
                    THEN "multipart" ELSE "put"

\* What holds of the class that has the test: its upload_object takes the
\* route the size gives.
DefaultRouteBySize ==
    putcall.pc = "done" /\ putcall.interface = "DefaultInterface" =>
        putcall.route = IF SizeExceeds(putcall.body, MPU_THRESHOLD(MB))
                    THEN "multipart" ELSE "put"

\* C22: the ACL passed to upload_object is the ACL of the stored object,
\* on the single put route and on the multipart route.
C22_AclApplied ==
    putcall.pc = "done" /\ putcall.error = "none" =>
        store[putcall.object_name].acl = putcall.acl

\* What holds: the ACL of an object written with a single put is the one
\* passed.
AclAppliedBySinglePut ==
    putcall.pc = "done" /\ putcall.route = "put" =>
        store[putcall.object_name].acl = putcall.acl

(***************************************************************************)
(*                  Properties of dict2cloud and cloud2dict                *)
(***************************************************************************)
\* Whether what cloud2dict returned is the dictionary: the same keys at
\* every depth and an equal array at every leaf.
RECURSIVE SameDict(_, _)
SameDict(got, array_dict) ==
    /\ got.t = array_dict.t
    /\ IF array_dict.t = "ndarray" THEN ArrayEqual(got.v, array_dict.v)
       ELSE /\ DOMAIN got.v = DOMAIN array_dict.v
            /\ \A k \in DOMAIN array_dict.v : SameDict(got.v[k], array_dict.v[k])

\* C23: cloud2dict(name) after dict2cloud(name, d) on an empty prefix
\* returns a dictionary with the keys of d at every depth and an equal array
\* at every leaf.
C23_DictRoundTrip ==
    branch.pc = "read" /\ branch.up_error = "none" =>
        /\ branch.error = "none"
        /\ SameDict(branch.value, branch.array_dict)

\* The dictionaries with an array in every dict and at most one dict in any
\* dict.
RECURSIVE IsNarrow(_)
IsNarrow(array_dict) ==
    \/ array_dict.t = "ndarray"
    \/ /\ DOMAIN array_dict.v # {}
       /\ Cardinality({k \in DOMAIN array_dict.v :
                          array_dict.v[k].t = "dict"}) <= 1
       /\ \A k \in DOMAIN array_dict.v : IsNarrow(array_dict.v[k])

\* What holds: those dictionaries do come back.
NarrowDictRoundTrip ==
    /\ branch.pc = "read"
    /\ branch.up_error = "none"
    /\ IsNarrow(branch.array_dict)
    => /\ branch.error = "none"
       /\ SameDict(branch.value, branch.array_dict)

(***************************************************************************)
(*                            Properties of rm                             *)
(***************************************************************************)
\* The objects of the subtree 'name/' in the bucket before the rm call.
Subtree == {n \in DOMAIN fs.before : StartsWith(n, fs.object_name \o SEPARATOR)}

\* rm was called on a subtree: a name that is no object and has objects
\* below it.
RmOfSubtree ==
    /\ fs.pc = "done"
    /\ fs.object_name \notin DOMAIN fs.before
    /\ Subtree # {}

\* C24: rm(name) on a subtree without recursive=True deletes no object;
\* with recursive=True it deletes every object of the subtree 'name/' and
\* leaves every object outside it as it was.
C24_RmSubtree ==
    RmOfSubtree =>
        IF fs.recursive
        THEN store = Without(fs.before, Subtree)
        ELSE store = fs.before

\* What holds: without recursive=True the bucket is left as it was, and with
\* it no object of the subtree is left unless rm raised.
RmWithoutRecursive ==
    RmOfSubtree =>
        IF fs.recursive
        THEN fs.error = "none" => DOMAIN store \cap Subtree = {}
        ELSE store = fs.before

(***************************************************************************)
(*            Properties of the parts of S3Client.upload_multipart         *)
(***************************************************************************)
\* The part size of the plan: nparts parts of it and the remainder make the
\* payload (s3client.py:420-421).
PlannedPartSize == (mpu.nbytes_total - mpu.last_part_offset) \div mpu.nparts

\* C25: the parts the store received are consecutive byte ranges of the
\* payload in order: parts 1..nparts-1 have part_size bytes, the last one
\* part_size plus the remainder total - nparts x part_size, and together
\* they are the whole payload.
C25_PartsTileThePayload ==
    mpu.pc \in {"parts", "done"} =>
        /\ \A i \in 1..Len(s3.parts) :
              /\ s3.parts[i].PartNumber = i
              /\ s3.parts[i].off = (i - 1) * PlannedPartSize
              /\ s3.parts[i].len =
                    IF i = mpu.nparts
                    THEN PlannedPartSize + (mpu.nbytes_total
                                            - mpu.nparts * PlannedPartSize)
                    ELSE PlannedPartSize
        /\ Len(s3.parts) < mpu.nparts => mpu.buffersize = PlannedPartSize
        /\ mpu.pc = "done" =>
              /\ Len(s3.parts) = mpu.nparts
              /\ s3.parts[mpu.nparts].off + s3.parts[mpu.nparts].len
                    = mpu.nbytes_total

\* A 12 MB payload went up in parts of 5 MB: one of 5 MB, then one of 7 MB.
C25_Witness ==
    /\ mpu.pc = "done"
    /\ mpu.nbytes_total = 12
    /\ mpu.nparts = 2
    /\ s3.parts[1].len = 5
    /\ s3.parts[2].off = 5
    /\ s3.parts[2].len = 7

(***************************************************************************)
(*      Properties of the chunk edges of generate_ndarray_chunks           *)
(***************************************************************************)
\* The dimensions the exhausted generator has cut: the axis, or every
\* dimension when there is none.
ChunkedDims ==
    {d \in 1..Len(gen.shape) : gen.axis = AxisNone \/ gen.axis = <<d>>}

\* The last chunk coordinate yielded along dimension d.
LastAlong(d) ==
    CHOOSE c \in {ch.coords[d] : ch \in Yielded} :
        \A ch \in Yielded : ch.coords[d] <= c

\* C26: along every chunked axis every chunk but the final one along that
\* axis has the full edge length, and the final one holds the remainder: the
\* dimension minus the full chunks before it.
C26_FullEdgesThenRemainder ==
    gen.pc = "done" /\ Yielded # {} =>
        \A d \in ChunkedDims : \A ch \in Yielded :
            Cardinality(ChunkRange(ch, d)) =
                IF ch.coords[d] < LastAlong(d) THEN gen.ii
                ELSE gen.shape[d] - LastAlong(d) * gen.ii

\* What holds: the chunks along an axis follow one another without gap and
\* none is longer than the edge length.
EdgesAtMostFull ==
    gen.pc = "done" =>
        \A d \in ChunkedDims : \A ch \in Yielded :
            /\ Cardinality(ChunkRange(ch, d)) <= gen.ii
            /\ ChunkRange(ch, d) # {} =>
                  \A x \in ChunkRange(ch, d) : x \div gen.ii = ch.coords[d]

(***************************************************************************)
(*        Properties of the manifest written by upload_dask_array          *)
(***************************************************************************)
\* The chunk coordinates the manifest lists along dimension d.
ListedCoords(d) ==
    {ManifestParts(StoredManifest)[i][1][d] :
        i \in 1..Len(ManifestParts(StoredManifest))}

\* C27: in the manifest the 'chunks' list of each axis has one entry per
\* distinct chunk coordinate along the axis, in coordinate order, each entry
\* the extent along the axis of every chunk with that coordinate (as the
\* stored part has it), and the entries of an axis sum to its dimension.
C27_ManifestChunks ==
    dask.pc = "done" =>
        LET chunks == ManifestChunks(StoredManifest)
            parts == ManifestParts(StoredManifest)
        IN  /\ Len(chunks) = Len(dask.arr.shape)
            /\ \A d \in 1..Len(chunks) :
                  /\ Len(chunks[d]) = Cardinality(ListedCoords(d))
                  /\ Sum(chunks[d]) = dask.arr.shape[d]
                  /\ \A i \in 1..Len(parts) :
                        LET before == {c \in ListedCoords(d) : c < parts[i][1][d]}
                        IN  chunks[d][Cardinality(before) + 1] =
                              ParseShape(store[parts[i][2]].metadata.shape)[d]

\* A two-dimensional array was uploaded and its manifest has more than one
\* chunk coordinate along both axes, the first of them not empty.
C27_Witness ==
    /\ dask.pc = "done"
    /\ Len(dask.arr.shape) = 2
    /\ Len(ManifestChunks(StoredManifest)[2]) >= 2
    /\ Len(ManifestChunks(StoredManifest)[1]) >= 2
    /\ ManifestChunks(StoredManifest)[2][1] > 0

(***************************************************************************)
(*       Properties of the objects upload_sparse_array leaves behind       *)
(***************************************************************************)
\* The names the manifest stored under object_name lists, and its own name.
ListedBySparseManifest(bucket, object_name) ==
    LET attrs == Member(bucket[ManifestName(object_name)].body[1].v, "attrs").v
    IN  {PathJoin(object_name, attrs[i].v) : i \in 1..Len(attrs)}
        \cup {ManifestName(object_name)}

\* The objects stored under the prefix of object_name.
StoredUnder(bucket, object_name) ==
    {name \in DOMAIN bucket : StartsWith(name, object_name \o SEPARATOR)}

\* C28: after every completed upload_sparse_array the objects under the
\* name's prefix are exactly metadata.json and the parts the current
\* manifest lists: none is missing and none of an earlier upload remains.
C28_OnlyCurrentParts ==
    sparse.pc = "done" =>
        StoredUnder(store, sparse.object_name) =
            ListedBySparseManifest(store, sparse.object_name)

\* After every completed upload every part the manifest lists is stored.
NoListedPartMissing ==
    sparse.pc = "done" =>
        ListedBySparseManifest(store, sparse.object_name)
            \subseteq StoredUnder(store, sparse.object_name)

(***************************************************************************)
(*      Properties of the metadata upload_raw_array stores (conflicts)     *)
(***************************************************************************)
\* C29: an upload_raw_array call whose extra metadata has a key dtype,
\* shape, compression or order fails and leaves the store as it was; any
\* other call that stores an object stores it with the four codec fields as
\* computed from the array, plus the caller's keys with the caller's values.
C29_CodecFieldsKept ==
    [][(raw.pc = "idle" /\ raw'.pc = "uploaded") =>
          IF DOMAIN raw'.metadata \cap CodecFields # {}
          THEN raw'.error = "AssertionError" /\ store' = store
          ELSE raw'.error = "none" =>
                 LET stored == store'[raw'.object_name].metadata
                     array == raw'.array
                 IN  /\ DOMAIN stored = CodecFields \cup DOMAIN raw'.metadata
                     /\ \A k \in DOMAIN raw'.metadata :
                           stored[k] = raw'.metadata[k]
                     /\ stored["dtype"] = DtypeStr(array.dtype)
                     /\ stored["shape"] = ShapeStr(array.shape)
                     /\ stored["order"] = OrderOf(array)
                     /\ stored["compression"] =
                           EffectiveCompression(array, raw'.compression).v]_vars

\* A call with the extra key order next to a key of the caller's own failed
\* and stored nothing.
C29_Witness ==
    /\ raw.pc = "uploaded"
    /\ DOMAIN raw.metadata = {"owner", "order"}
    /\ raw.error = "AssertionError"
    /\ raw.object_name \notin DOMAIN store

(***************************************************************************)
(*                     Properties of GzipInputStream                       *)
(***************************************************************************)
\* tell() is the number of bytes that read has returned so far.
TellIsReturned ==
    /\ gzstream.offset = gzstream.returned
    /\ gzstream.op = "tell" => gzstream.told = gzstream.returned

\* A seek call before the offset, or with a whence other than 0 and 1,
\* raises IOError and leaves the offset and the buffer as they were.
SeekBackFails ==
    (gzstream.pc = "ready" /\ gzstream'.op = "seek"
        /\ \/ gzstream'.whence \notin {0, 1}
           \/ (IF gzstream'.whence = 0 THEN gzstream'.arg
               ELSE gzstream.offset + gzstream'.arg) < gzstream.offset)
    => /\ gzstream'.error = "IOError"
       /\ gzstream'.pc = "ready"
       /\ gzstream'.offset = gzstream.offset
       /\ gzstream'.data = gzstream.data

\* A forward seek that has ended left the offset at its target, or at the
\* end of the decompressed data when the target is beyond it.
SeekEndsAtTarget ==
    (gzstream.pc = "ready" /\ gzstream.op = "seek" /\ gzstream.error = "none")
    => gzstream.offset = Min(gzstream.position, GzTotal(gzstream))

\* C30: for GzipInputStream, after any read and seek calls tell() is the
\* number of decompressed bytes reads have returned; a seek before the
\* offset or with whence other than 0 or 1 raises IOError and leaves offset
\* and buffer unchanged; a forward seek ends, with tell() at the target or,
\* when the target is beyond the data, at the total decompressed length.
C30_TellAndSeek ==
    /\ [](TellIsReturned /\ SeekEndsAtTarget)
    /\ [][SeekBackFails]_vars
    /\ (gzstream.pc = "seeking") ~> (gzstream.pc = "ready")

\* A forward seek beyond the end of a stream of which some bytes had been
\* read ended at the total length, a part of it coming from flush().
C30_Witness ==
    /\ gzstream.pc = "ready"
    /\ gzstream.op = "seek"
    /\ gzstream.error = "none"
    /\ gzstream.position > GzTotal(gzstream)
    /\ gzstream.offset = GzTotal(gzstream)
    /\ gzstream.tail = 1
    /\ gzstream.BLOCK_SIZE = 1
    /\ Len(gzstream.file) = 2
    /\ gzstream.offset > 2

=============================================================================
